---- MODULE Spec2Model ----
(***************************************************************************)
(* Model of the commit template language core of cli/src/                  *)
(* commit_templater.rs: the keyword cache (lazily built ref indices and    *)
(* the immutability predicate), the CommitRef constructors and their       *)
(* tracking counts, the CommitRefsIndex, CommitOrChangeId::shortest, the   *)
(* method dispatch, the list-valued properties and the TreeDiff; and of    *)
(* cli/src/git_util.rs: draw_progress, Progress and the writer of sideband *)
(* progress messages.                                                      *)
(*                                                                         *)
(* Option<T> and OnceCell<T> are sequences of length at most one:          *)
(* << >> is None / an empty cell, <<v>> is Some(v) / a filled cell.        *)
(***************************************************************************)
EXTENDS Integers, Sequences, FiniteSets, TLC

----------------------------------------------------------------------------
(* Bounds of the model *)

\* failed attempts after which a fallible collaborator call is not retried
MaxAttempts == 2
\* templates built with one language
MaxTemplates == 2
\* keyword properties bound in one template
MaxProps == 2
\* bytes of an id given to shortest
MaxIdBytes == 2
\* min_len arguments of shortest beyond the longest hex text
MaxExtraLen == 1
\* records rendered with one template, renderings of one value
MaxRecords == 2
\* columns of a progress bar drawn on its own
MaxWidth == 4
\* calls of Progress::update on one Progress
MaxUpdates == 3
\* bytes of a sideband progress stream
MaxStream == 3

\* crate::progress::INITIAL_DELAY, in microseconds
INITIAL_DELAY == 250000
\* crate::progress::UPDATE_HZ
UPDATE_HZ == 30

----------------------------------------------------------------------------
(* The commit graph of the repository: a fixed history with a fork.        *)
(*      c0 <- c1 <- c2 <- c3                                               *)
(*      c0 <- c4                                                           *)

Commits == {"c0", "c1", "c2", "c3", "c4"}

Parents ==
    [c \in Commits |->
        CASE c = "c0" -> {}
          [] c = "c1" -> {"c0"}
          [] c = "c2" -> {"c1"}
          [] c = "c3" -> {"c2"}
          [] c = "c4" -> {"c0"}]

RECURSIVE Ancestors(_)
\* the commits reachable from a set of heads, the heads included
Ancestors(heads) ==
    LET up == heads \cup UNION {Parents[c] : c \in heads}
    IN  IF up = heads THEN heads ELSE Ancestors(up)

Range(s) == {s[i] : i \in DOMAIN s}

\* revset::walk_revs(repo, wanted, unwanted).count_estimate() on success:
\* the exact size of the range, as a SizeHint (lower, Some(upper))
walk_revs_count(wanted, unwanted) ==
    LET n == Cardinality(Ancestors(Range(wanted)) \ Ancestors(Range(unwanted)))
    IN  <<n, <<n>>>>

----------------------------------------------------------------------------
(* RefTarget: a Merge<Option<CommitId>>, the adds at the odd positions and *)
(* the removes at the even positions of an odd-length sequence.            *)

RefTarget_absent == << << >> >>
RefTarget_normal(c) == << <<c>> >>

RECURSIVE Flatten(_)
Flatten(opts) ==
    IF opts = << >> THEN << >> ELSE Head(opts) \o Flatten(Tail(opts))

adds(target) == [i \in 1..((Len(target) + 1) \div 2) |-> target[2 * i - 1]]
added_ids(target) == Flatten(adds(target))
is_absent(target) == target = RefTarget_absent
is_present(target) == ~is_absent(target)
has_conflict(target) == Len(target) # 1

\* the targets a view holds: absent, normal, and conflicts whose added ids
\* are distinct
Targets ==
    {RefTarget_absent}
    \cup {RefTarget_normal(c) : c \in {"c0", "c1", "c3", "c4"}}
    \cup {<< <<"c3">>, <<"c0">>, <<"c4">> >>, << <<"c4">>, <<"c1">>, << >> >>}

\* RemoteRef { target, state }: state is Tracked or New
RemoteRefs == [target : Targets, tracked : BOOLEAN]

----------------------------------------------------------------------------
(* CommitRef and its constructors.  tracking_ref holds the cells as they   *)
(* are at construction; the live cells of the shared Rc<CommitRef> are the *)
(* entries of the variable counts, keyed by RefKey.                        *)

NoCount == << >>
SyncedCount == << <<0, <<0>>>> >>

\* a constructor that compares the untracked remote refs too
CommitRef_local_all(name, target, remote_refs) ==
    LET synced == \A i \in DOMAIN remote_refs : remote_refs[i].target = target
    IN  [name |-> name, remote |-> << >>, target |-> target,
         tracking_ref |-> << >>, synced |-> synced]

CommitRef_local(name, target, remote_refs) ==
    LET synced == \A i \in DOMAIN remote_refs :
                      ~remote_refs[i].tracked \/ remote_refs[i].target = target
    IN  [name |-> name, remote |-> << >>, target |-> target,
         tracking_ref |-> << >>, synced |-> synced]

\* a constructor of local-only refs that leaves synced unset
CommitRef_local_only_unsynced(name, target) ==
    [CommitRef_local(name, target, << >>) EXCEPT !.synced = FALSE]

CommitRef_local_only(name, target) == CommitRef_local(name, target, << >>)

\* a constructor that calls an untracked remote ref synced when the targets
\* are equal
CommitRef_remote_eq(name, remote_name, remote_ref, local_target) ==
    LET synced == remote_ref.target = local_target
        count == IF synced THEN SyncedCount ELSE NoCount
        tracking_ref ==
            IF remote_ref.tracked
            THEN << [target |-> local_target,
                     ahead_count |-> count, behind_count |-> count] >>
            ELSE << >>
    IN  [name |-> name, remote |-> <<remote_name>>, target |-> remote_ref.target,
         tracking_ref |-> tracking_ref, synced |-> synced]

CommitRef_remote(name, remote_name, remote_ref, local_target) ==
    LET synced == remote_ref.tracked /\ remote_ref.target = local_target
        count == IF synced THEN SyncedCount ELSE NoCount
        tracking_ref ==
            IF remote_ref.tracked
            THEN << [target |-> local_target,
                     ahead_count |-> count, behind_count |-> count] >>
            ELSE << >>
    IN  [name |-> name, remote |-> <<remote_name>>, target |-> remote_ref.target,
         tracking_ref |-> tracking_ref, synced |-> synced]

CommitRef_remote_only(name, remote_name, target) ==
    [name |-> name, remote |-> <<remote_name>>, target |-> target,
     tracking_ref |-> << >>, synced |-> FALSE]

remote_name(ref) == ref.remote
is_local(ref) == ref.remote = << >>
\* an is_remote that asks for the tracking ref instead
is_remote_if_tracked(ref) == ref.tracking_ref # << >>
is_remote(ref) == ref.remote # << >>
is_tracked(ref) == ref.tracking_ref # << >>
is_tracking_present(ref) ==
    ref.tracking_ref # << >> /\ is_present(ref.tracking_ref[1].target)

\* identity of a CommitRef within one namespace
RefKey(ref) == <<ref.name, ref.remote>>

\* the live cells a newly constructed tracked ref brings with it
NewCounts(refs) ==
    [k \in {RefKey(r) : r \in {x \in refs : is_tracked(x)}} |->
        LET r == CHOOSE x \in refs : is_tracked(x) /\ RefKey(x) = k
        IN  [ahead_count |-> r.tracking_ref[1].ahead_count,
             behind_count |-> r.tracking_ref[1].behind_count]]

----------------------------------------------------------------------------
(* CommitRefsIndex: HashMap<CommitId, Vec<Rc<CommitRef>>>, a function whose *)
(* domain is the set of ids that have an entry.                            *)

CommitRefsIndex_default == [id \in {} |-> << >>]

RECURSIVE CommitRefsIndex_insert_front(_, _, _)
\* an insert that puts the ref in front of the entry instead of pushing it
CommitRefsIndex_insert_front(index, ids, ref) ==
    IF ids = << >> THEN index
    ELSE LET id == Head(ids)
             commit_refs == IF id \in DOMAIN index THEN index[id] ELSE << >>
             pushed ==
                 [k \in DOMAIN index \cup {id} |->
                     IF k = id THEN <<ref>> \o commit_refs ELSE index[k]]
         IN  CommitRefsIndex_insert_front(pushed, Tail(ids), ref)

RECURSIVE CommitRefsIndex_insert(_, _, _)
CommitRefsIndex_insert(index, ids, ref) ==
    IF ids = << >> THEN index
    ELSE LET id == Head(ids)
             commit_refs == IF id \in DOMAIN index THEN index[id] ELSE << >>
             pushed ==
                 [k \in DOMAIN index \cup {id} |->
                     IF k = id THEN Append(commit_refs, ref) ELSE index[k]]
         IN  CommitRefsIndex_insert(pushed, Tail(ids), ref)

CommitRefsIndex_get(index, id) ==
    IF id \in DOMAIN index THEN index[id] ELSE << >>

RECURSIVE InsertRemotes(_, _, _, _)
\* the loop over the remote refs of one bookmark
InsertRemotes(index, bookmark_name, local_target, remote_refs) ==
    IF remote_refs = << >> THEN index
    ELSE LET r == Head(remote_refs)
             commit_ref ==
                 CommitRef_remote(bookmark_name, r.remote,
                                  [target |-> r.target, tracked |-> r.tracked],
                                  local_target)
         IN  InsertRemotes(
                 CommitRefsIndex_insert(index, added_ids(r.target), commit_ref),
                 bookmark_name, local_target, Tail(remote_refs))

\* the body of the loop over repo.view().bookmarks()
InsertBookmark(index, b) ==
    LET remote_refs == [i \in DOMAIN b.remote_refs |->
                           [target |-> b.remote_refs[i].target,
                            tracked |-> b.remote_refs[i].tracked]]
        with_local ==
            IF is_present(b.local_target)
            THEN CommitRefsIndex_insert(
                     index, added_ids(b.local_target),
                     CommitRef_local(b.name, b.local_target, remote_refs))
            ELSE index
    IN  InsertRemotes(with_local, b.name, b.local_target, b.remote_refs)

RECURSIVE BookmarksLoop(_, _)
BookmarksLoop(index, bookmarks) ==
    IF bookmarks = << >> THEN index
    ELSE BookmarksLoop(InsertBookmark(index, Head(bookmarks)), Tail(bookmarks))

build_bookmarks_index(bookmarks) ==
    BookmarksLoop(CommitRefsIndex_default, bookmarks)

RECURSIVE RefPairsLoop(_, _)
RefPairsLoop(index, ref_pairs) ==
    IF ref_pairs = << >> THEN index
    ELSE LET p == Head(ref_pairs)
             commit_ref == CommitRef_local_only(p.name, p.target)
         IN  RefPairsLoop(
                 CommitRefsIndex_insert(index, added_ids(p.target), commit_ref),
                 Tail(ref_pairs))

build_commit_refs_index(ref_pairs) ==
    RefPairsLoop(CommitRefsIndex_default, ref_pairs)

\* every CommitRef an index holds
IndexRefs(index) == UNION {Range(index[id]) : id \in DOMAIN index}

----------------------------------------------------------------------------
(* State *)

VARIABLES
    view,       \* the repository view the language reads (never written)
    cache,      \* CommitTemplateLanguage.keyword_cache: four OnceCells
    stats,      \* history: namespace scans and immutable-revset evaluations
    counts,     \* live ahead_count / behind_count cells per tracked CommitRef
    walks,      \* history: graph walks started and finished per tracked ref
    props,      \* the properties bound so far in the template being built
    phase,      \* "build", "render" or "aborted" for the current template
    templates,  \* templates started with this language
    last,       \* outcome of the last evaluation or call
    input,      \* arguments of the function under study (pure-function specs)
    made,       \* the CommitRef or the property made by a direct call
    output,     \* the text written for the records rendered so far
    diagnostics, \* TemplateDiagnostics: the warnings added while binding
    progress,   \* the git_util Progress in use: << >> or <<its fields>>
    writer,     \* the GitSidebandProgressMessageWriter in use, likewise
    now         \* the Instant of the latest Progress call, in microseconds

vars == <<view, cache, stats, counts, walks, props, phase, templates, last,
          input, made, output, diagnostics, progress, writer, now>>

\* the state of git_util, which the template language leaves alone
git_util_vars == <<progress, writer, now>>
NoGitUtil == progress = << >> /\ writer = << >> /\ now = 0

Namespaces == {"bookmarks", "tags", "git_refs"}

CommitKeywordCache_default ==
    [bookmarks_index |-> << >>, tags_index |-> << >>,
     git_refs_index |-> << >>, is_immutable_fn |-> << >>]

NoStats ==
    [scans |-> [ns \in Namespaces |-> 0], imm_evals |-> 0, imm_ok |-> 0]

NoCounts == [k \in {} |-> << >>]
NoWalks == [k \in {} |-> << >>]
Nothing == [op |-> "none"]

\* OnceCell::get_or_init: the closure runs only on an empty cell
get_or_init(cell, value) ==
    IF cell = << >>
    THEN [cell |-> <<value>>, ran |-> TRUE]
    ELSE [cell |-> cell, ran |-> FALSE]

\* a cell that runs the closure again although it is filled
get_or_try_init_always(cell, value, ok) ==
    IF ok THEN [cell |-> <<value>>, ran |-> TRUE, ok |-> TRUE]
    ELSE [cell |-> cell, ran |-> TRUE, ok |-> FALSE]

\* OnceCell::get_or_try_init: the closure runs only on an empty cell, and a
\* failing closure leaves the cell empty
get_or_try_init(cell, value, ok) ==
    IF cell # << >> THEN [cell |-> cell, ran |-> FALSE, ok |-> TRUE]
    ELSE IF ok THEN [cell |-> <<value>>, ran |-> TRUE, ok |-> TRUE]
    ELSE [cell |-> << >>, ran |-> TRUE, ok |-> FALSE]

\* an accessor that scans the namespace at every call
bookmarks_index_rebuild(c, v, scanned) ==
    [cell |-> <<[rc |-> scanned + 1, index |-> build_bookmarks_index(v.bookmarks)]>>,
     ran |-> TRUE]

\* CommitKeywordCache::bookmarks_index / tags_index / git_refs_index.  The rc
\* field names the allocation made by Rc::new: the n-th scan of a namespace.
bookmarks_index(c, v, scanned) ==
    get_or_init(c.bookmarks_index,
                [rc |-> scanned + 1, index |-> build_bookmarks_index(v.bookmarks)])

tags_index(c, v, scanned) ==
    get_or_init(c.tags_index,
                [rc |-> scanned + 1, index |-> build_commit_refs_index(v.tags)])

git_refs_index(c, v, scanned) ==
    get_or_init(c.git_refs_index,
                [rc |-> scanned + 1, index |-> build_commit_refs_index(v.git_refs)])

\* the cell of a namespace and the accessor that fills it
IndexCell(c, ns) ==
    CASE ns = "bookmarks" -> c.bookmarks_index
      [] ns = "tags" -> c.tags_index
      [] ns = "git_refs" -> c.git_refs_index

IndexAccess(c, v, st, ns) ==
    CASE ns = "bookmarks" -> bookmarks_index(c, v, st.scans[ns])
      [] ns = "tags" -> tags_index(c, v, st.scans[ns])
      [] ns = "git_refs" -> git_refs_index(c, v, st.scans[ns])

WithIndexCell(c, ns, cell) ==
    CASE ns = "bookmarks" -> [c EXCEPT !.bookmarks_index = cell]
      [] ns = "tags" -> [c EXCEPT !.tags_index = cell]
      [] ns = "git_refs" -> [c EXCEPT !.git_refs_index = cell]

----------------------------------------------------------------------------
(* Builders of builtin_commit_methods and of the shortest method: what     *)
(* binding a call node does.  A bound property is a record of what its     *)
(* closure captured; build_reads lists the repository reads its builder    *)
(* made.                                                                   *)

RefsKeywords == {"bookmarks", "local_bookmarks", "remote_bookmarks", "tags", "git_refs"}
SimpleKeywords == {"git_head", "root"}
RevsetTexts == {"::c3", "("}

KeywordNamespace(kw) ==
    CASE kw \in {"bookmarks", "local_bookmarks", "remote_bookmarks"} -> "bookmarks"
      [] kw = "tags" -> "tags"
      [] kw = "git_refs" -> "git_refs"

Property(kw, arg, rc, index, set, loaded, build_reads) ==
    [kw |-> kw, arg |-> arg, rc |-> rc, index |-> index, set |-> set,
     loaded |-> loaded, build_reads |-> build_reads]

\* a builder of git_head that takes the head out of the view while binding
SimpleBuilder_eager(kw) ==
    Property(kw, "", 0, CommitRefsIndex_default, {}, FALSE,
             IF kw = "git_head" THEN {"view.git_head"} ELSE {})

\* builders whose closure captures the repository handle and reads it only
\* when invoked: git_head, root
SimpleBuilder(kw) ==
    Property(kw, "", 0, CommitRefsIndex_default, {}, FALSE, {})

\* bookmarks, local_bookmarks, remote_bookmarks, tags, git_refs: the builder
\* takes the index from the keyword cache and the closure captures the Rc
RefsBuilder(kw, acc) ==
    Property(kw, "", acc.cell[1].rc, acc.cell[1].index, {}, FALSE,
             IF acc.ran THEN {"view." \o KeywordNamespace(kw)} ELSE {})

\* revset::parse_with_modifier on the texts of the model
parse_revset(text) ==
    IF text = "(" THEN [ok |-> FALSE, heads |-> {}]
    ELSE [ok |-> TRUE, heads |-> {"c3"}]

\* an evaluation that yields the heads alone
evaluate_revset_expression_heads(heads) == heads

\* evaluate_revset_expression on success: the commits of the revset
evaluate_revset_expression(heads) == Ancestors(heads)

\* CommitKeywordCache::is_immutable_fn: ok is the outcome of resolving and
\* evaluating language.immutable_expression, should the closure run
is_immutable_fn(c, v, evals, ok) ==
    get_or_try_init(c.is_immutable_fn,
                    [rc |-> evals + 1,
                     set |-> evaluate_revset_expression(v.immutable_heads)],
                    ok)

BuildStep == phase = "build" /\ Cardinality(props) < MaxProps

\* the span of a string literal argument of a call node
LiteralSpan_name(kw, text) == [of |-> "name", name |-> kw]
LiteralSpan(kw, text) == [of |-> "literal", name |-> kw, text |-> text]

\* TemplateParseError::expression(message, span)
BuildError(kw, message, span) ==
    [op |-> "build_error", kw |-> kw, message |-> message, span |-> span]

BuildSimple(kw) ==
    /\ BuildStep
    /\ props' = props \cup {SimpleBuilder(kw)}
    /\ UNCHANGED <<git_util_vars, diagnostics,
                   output, view, cache, stats, counts, walks, phase, templates, last,
                   input, made>>

BuildRefs(kw) ==
    /\ BuildStep
    /\ LET ns == KeywordNamespace(kw)
           acc == IndexAccess(cache, view, stats, ns)
           fresh == IF acc.ran THEN NewCounts(IndexRefs(acc.cell[1].index))
                    ELSE NoCounts
       IN  /\ cache' = WithIndexCell(cache, ns, acc.cell)
           /\ stats' = IF acc.ran
                       THEN [stats EXCEPT !.scans[ns] = @ + 1]
                       ELSE stats
           /\ counts' = fresh @@ counts
           /\ walks' = walks @@ [k \in DOMAIN fresh |->
                                    [ahead |-> 0, ahead_ok |-> 0,
                                     behind |-> 0, behind_ok |-> 0]]
           /\ props' = props \cup {RefsBuilder(kw, acc)}
    /\ UNCHANGED <<git_util_vars, diagnostics,
                   output, view, phase, templates, last, input, made>>

BuildImmutable(ok) ==
    /\ BuildStep
    /\ LET r == is_immutable_fn(cache, view, stats.imm_evals, ok)
       IN  /\ cache' = [cache EXCEPT !.is_immutable_fn = r.cell]
           /\ stats' = IF r.ran
                       THEN [stats EXCEPT !.imm_evals = @ + 1,
                                          !.imm_ok = IF r.ok THEN @ + 1 ELSE @]
                       ELSE stats
           /\ IF r.ok
              THEN /\ props' = props \cup
                        {Property("immutable", "", r.cell[1].rc,
                                  CommitRefsIndex_default, r.cell[1].set, FALSE,
                                  IF r.ran THEN {"revset.evaluate"} ELSE {})}
                   /\ phase' = phase
              ELSE /\ props' = props
                   /\ phase' = "aborted"
           /\ last' = IF r.ok THEN last
                       ELSE BuildError("immutable", "Failed to evaluate revset",
                                       [of |-> "name", name |-> "immutable"])
    /\ UNCHANGED <<git_util_vars, diagnostics,
                   output, view, counts, walks, templates, input, made>>

BuildContainedIn(text, ok) ==
    /\ BuildStep
    /\ LET parsed == parse_revset(text)
       IN  IF parsed.ok /\ ok
           THEN /\ props' = props \cup
                     {Property("contained_in", text, 0, CommitRefsIndex_default,
                               evaluate_revset_expression(parsed.heads), FALSE,
                               {"revset.evaluate"})}
                /\ phase' = phase
                /\ last' = last
           ELSE /\ props' = props
                /\ phase' = "aborted"
                /\ last' = BuildError("contained_in",
                                       IF parsed.ok THEN "Failed to evaluate revset"
                                       ELSE "In revset expression",
                                       LiteralSpan("contained_in", text))
    /\ UNCHANGED <<git_util_vars, diagnostics,
                   output, view, cache, stats, counts, walks, templates, input,
                   made>>

\* a populate whose failure is an error of the build
populate_or_fail(loaded) ==
    [ok |-> loaded, loaded |-> loaded, warnings |-> << >>]

\* shortest, the match on id_prefix_context.populate(repo): loaded is its
\* outcome; a failure adds a warning with the span of the method name and
\* is replaced by IdPrefixIndex::empty()
populate_or_empty(loaded) ==
    [ok |-> TRUE, loaded |-> loaded,
     warnings |-> IF loaded THEN << >>
                  ELSE << [message |-> "Failed to load short-prefixes index",
                           span |-> [of |-> "name", name |-> "shortest"]] >>]

\* shortest: arg is "" for shortest() and "min_len" for shortest(len); the
\* property keeps the index it was bound with.  A template of the model
\* makes each of the two calls at most once.
BuildShortest(arg, loaded) ==
    LET index == populate_or_empty(loaded)
    IN  /\ BuildStep
        /\ ~\E p \in props : p.kw = "shortest" /\ p.arg = arg
        /\ IF index.ok
           THEN /\ props' = props \cup
                       {Property("shortest", arg, 0, CommitRefsIndex_default,
                                 {}, index.loaded, {"id_prefix.populate"})}
                /\ diagnostics' = diagnostics \o index.warnings
                /\ UNCHANGED <<phase, last>>
           ELSE /\ phase' = "aborted"
                /\ last' = BuildError("shortest",
                                      "Failed to load short-prefixes index",
                                      [of |-> "name", name |-> "shortest"])
                /\ UNCHANGED <<props, diagnostics>>
        /\ UNCHANGED <<git_util_vars, output, view, cache, stats, counts,
                       walks, templates, input, made>>

\* the whole template is bound: rendering of records starts
FinishBuild ==
    /\ phase = "build"
    /\ phase' = "render"
    /\ UNCHANGED <<git_util_vars, diagnostics,
                   output, view, cache, stats, counts, walks, props, templates, last,
                   input, made>>

\* another template is parsed with the same language and with diagnostics
\* of its own
NewTemplate ==
    /\ phase \in {"render", "aborted"}
    /\ templates < MaxTemplates
    /\ templates' = templates + 1
    /\ phase' = "build"
    /\ props' = {}
    /\ diagnostics' = << >>
    /\ last' = Nothing
    /\ UNCHANGED <<git_util_vars, output, view, cache, stats, counts, walks,
                   input, made>>

----------------------------------------------------------------------------
(* Evaluation of bound properties for one record *)

KeepBookmarks(commit_ref) == is_local(commit_ref) \/ ~commit_ref.synced

\* a closure of bookmarks that keeps every ref of the entry
EvalProp_unfiltered(p, commit) ==
    CASE p.kw \in RefsKeywords -> CommitRefsIndex_get(p.index, commit)
      [] p.kw \in {"immutable", "contained_in"} -> commit \in p.set
      [] p.kw = "git_head" -> commit \in Range(added_ids(view.git_head))
      [] p.kw = "root" -> commit = "c0"

\* the closure of a bound keyword applied to a commit
EvalProp(p, commit) ==
    CASE p.kw = "bookmarks" ->
             SelectSeq(CommitRefsIndex_get(p.index, commit), KeepBookmarks)
      [] p.kw = "local_bookmarks" ->
             SelectSeq(CommitRefsIndex_get(p.index, commit), is_local)
      [] p.kw = "remote_bookmarks" ->
             SelectSeq(CommitRefsIndex_get(p.index, commit), is_remote)
      [] p.kw \in {"tags", "git_refs"} -> CommitRefsIndex_get(p.index, commit)
      [] p.kw \in {"immutable", "contained_in"} -> commit \in p.set
      [] p.kw = "git_head" -> commit \in Range(added_ids(view.git_head))
      [] p.kw = "root" -> commit = "c0"

Evaluate(p, commit) ==
    /\ phase = "render"
    /\ p \in props
    /\ p.kw # "shortest"
    /\ last' = [op |-> "eval", kw |-> p.kw, commit |-> commit,
                result |-> EvalProp(p, commit)]
    /\ UNCHANGED <<git_util_vars, diagnostics,
                   output, view, cache, stats, counts, walks, props, phase, templates,
                   input, made>>

\* CommitRef::tracking_ahead_count / tracking_behind_count on the live cell:
\* ok is the outcome of the graph walk, should the closure run
\* an ahead count that walks from the local target
tracking_ahead_count_swapped(commit_ref, cell, ok) ==
    IF ~is_tracked(commit_ref)
    THEN [cell |-> cell, ran |-> FALSE, ok |-> FALSE]
    ELSE get_or_try_init(
             cell,
             walk_revs_count(added_ids(commit_ref.tracking_ref[1].target),
                             added_ids(commit_ref.target)),
             ok)

tracking_ahead_count(commit_ref, cell, ok) ==
    IF ~is_tracked(commit_ref)
    THEN [cell |-> cell, ran |-> FALSE, ok |-> FALSE]
    ELSE get_or_try_init(
             cell,
             walk_revs_count(added_ids(commit_ref.target),
                             added_ids(commit_ref.tracking_ref[1].target)),
             ok)

\* a behind count that repeats the walk of the ahead count
tracking_behind_count_same(commit_ref, cell, ok) ==
    IF ~is_tracked(commit_ref)
    THEN [cell |-> cell, ran |-> FALSE, ok |-> FALSE]
    ELSE get_or_try_init(
             cell,
             walk_revs_count(added_ids(commit_ref.target),
                             added_ids(commit_ref.tracking_ref[1].target)),
             ok)

tracking_behind_count(commit_ref, cell, ok) ==
    IF ~is_tracked(commit_ref)
    THEN [cell |-> cell, ran |-> FALSE, ok |-> FALSE]
    ELSE get_or_try_init(
             cell,
             walk_revs_count(added_ids(commit_ref.tracking_ref[1].target),
                             added_ids(commit_ref.target)),
             ok)

Outcome(op, commit_ref, r) ==
    [op |-> op, ref |-> commit_ref,
     result |-> IF r.ok THEN <<"Ok", r.cell[1]>>
                ELSE IF r.ran THEN <<"Err", "walk failed">>
                ELSE <<"Err", "Not a tracked remote ref">>]

TrackingAheadCount(commit_ref, ok) ==
    LET k == RefKey(commit_ref)
        tracked == is_tracked(commit_ref)
        cell == IF tracked THEN counts[k].ahead_count ELSE NoCount
        r == tracking_ahead_count(commit_ref, cell, ok)
    IN  /\ tracked /\ ~ok => walks[k].ahead - walks[k].ahead_ok < MaxAttempts
        /\ counts' = IF tracked
                     THEN [counts EXCEPT ![k].ahead_count = r.cell]
                     ELSE counts
        /\ walks' = IF r.ran
                    THEN [walks EXCEPT ![k].ahead = @ + 1,
                                       ![k].ahead_ok = IF r.ok THEN @ + 1 ELSE @]
                    ELSE walks
        /\ last' = Outcome("tracking_ahead_count", commit_ref, r)

TrackingBehindCount(commit_ref, ok) ==
    LET k == RefKey(commit_ref)
        tracked == is_tracked(commit_ref)
        cell == IF tracked THEN counts[k].behind_count ELSE NoCount
        r == tracking_behind_count(commit_ref, cell, ok)
    IN  /\ tracked /\ ~ok => walks[k].behind - walks[k].behind_ok < MaxAttempts
        /\ counts' = IF tracked
                     THEN [counts EXCEPT ![k].behind_count = r.cell]
                     ELSE counts
        /\ walks' = IF r.ran
                    THEN [walks EXCEPT ![k].behind = @ + 1,
                                       ![k].behind_ok = IF r.ok THEN @ + 1 ELSE @]
                    ELSE walks
        /\ last' = Outcome("tracking_behind_count", commit_ref, r)

\* the CommitRef values the bound keywords of the template can yield
Rendered ==
    UNION {Range(EvalProp(p, c)) :
               p \in {q \in props : q.kw \in RefsKeywords}, c \in Commits}

EvalTrackingAhead(commit_ref, ok) ==
    /\ phase = "render"
    /\ commit_ref \in Rendered
    /\ TrackingAheadCount(commit_ref, ok)
    /\ UNCHANGED <<git_util_vars, diagnostics,
                   output, view, cache, stats, props, phase, templates, input, made>>

EvalTrackingBehind(commit_ref, ok) ==
    /\ phase = "render"
    /\ commit_ref \in Rendered
    /\ TrackingBehindCount(commit_ref, ok)
    /\ UNCHANGED <<git_util_vars, diagnostics,
                   output, view, cache, stats, props, phase, templates, input, made>>

----------------------------------------------------------------------------
(* Spec: one CommitTemplateLanguage over a fixed view; templates are bound *)
(* and rendered with it.                                                   *)

Tags == << [name |-> "v1", target |-> RefTarget_normal("c1")] >>
GitRefs == << [name |-> "refs/heads/main", target |-> RefTarget_normal("c4")] >>

SpecViews ==
    {[bookmarks |->
          << [name |-> "main", local_target |-> RefTarget_normal("c4"),
              remote_refs |-> << [remote |-> "origin", target |-> t,
                                  tracked |-> tr] >>] >>,
      tags |-> Tags, git_refs |-> GitRefs,
      git_head |-> RefTarget_normal("c4"),
      immutable_heads |-> {"c1"}] :
        t \in {RefTarget_normal("c3"), RefTarget_normal("c4")}, tr \in BOOLEAN}

Init ==
    /\ view \in SpecViews
    /\ cache = CommitKeywordCache_default
    /\ stats = NoStats
    /\ counts = NoCounts
    /\ walks = NoWalks
    /\ props = {}
    /\ phase = "build"
    /\ templates = 1
    /\ last = Nothing
    /\ input = Nothing
    /\ made = << >>
    /\ output = << >>
    /\ diagnostics = << >>
    /\ NoGitUtil

Next ==
    \/ \E kw \in SimpleKeywords : BuildSimple(kw)
    \/ \E kw \in RefsKeywords : BuildRefs(kw)
    \/ \E ok \in BOOLEAN : BuildImmutable(ok)
    \/ \E text \in RevsetTexts, ok \in BOOLEAN : BuildContainedIn(text, ok)
    \/ \E loaded \in BOOLEAN : BuildShortest("", loaded)
    \/ FinishBuild
    \/ NewTemplate
    \/ \E p \in props, c \in Commits : Evaluate(p, c)

Spec == Init /\ [][Next]_vars

----------------------------------------------------------------------------
(* SpecCounts: the same language, with templates that bind the bookmark    *)
(* keywords and immutable and then call the tracking counts of the refs    *)
(* they render.                                                            *)

NextCounts ==
    \/ \E kw \in {"bookmarks", "remote_bookmarks"} : BuildRefs(kw)
    \/ \E ok \in BOOLEAN : BuildImmutable(ok)
    \/ FinishBuild
    \/ NewTemplate
    \/ \E r \in Rendered, ok \in BOOLEAN : EvalTrackingAhead(r, ok)
    \/ \E r \in Rendered, ok \in BOOLEAN : EvalTrackingBehind(r, ok)

SpecCounts == Init /\ [][NextCounts]_vars

----------------------------------------------------------------------------
(* SpecRef: the CommitRef constructors called directly, and the tracking   *)
(* counts of the ref they return.                                          *)

IdleLanguage ==
    /\ cache = CommitKeywordCache_default
    /\ stats = NoStats
    /\ props = {}
    /\ phase = "render"
    /\ templates = 1

\* remote_refs arguments of CommitRef::local: up to two remote refs
RemoteRefLists ==
    {<< >>} \cup {<<r>> : r \in RemoteRefs}
            \cup {<<r1, r2>> : r1 \in RemoteRefs, r2 \in RemoteRefs}

Made(commit_ref, args) ==
    /\ made = << >>
    /\ made' = <<commit_ref>>
    /\ input' = args
    /\ counts' = NewCounts({commit_ref})
    /\ walks' = [k \in DOMAIN NewCounts({commit_ref}) |->
                    [ahead |-> 0, ahead_ok |-> 0, behind |-> 0, behind_ok |-> 0]]
    /\ UNCHANGED <<git_util_vars, diagnostics,
                   output, view, cache, stats, props, phase, templates, last>>

MakeLocal(target, remote_refs) ==
    Made(CommitRef_local("main", target, remote_refs),
         [fn |-> "local", target |-> target, remote_refs |-> remote_refs])

MakeLocalOnly(target) ==
    Made(CommitRef_local_only("main", target),
         [fn |-> "local_only", target |-> target])

MakeRemote(remote_ref, local_target) ==
    Made(CommitRef_remote("main", "origin", remote_ref, local_target),
         [fn |-> "remote", remote_ref |-> remote_ref,
          local_target |-> local_target])

MakeRemoteOnly(target) ==
    Made(CommitRef_remote_only("main", "origin", target),
         [fn |-> "remote_only", target |-> target])

CallTrackingAhead(ok) ==
    /\ made # << >>
    /\ TrackingAheadCount(made[1], ok)
    /\ UNCHANGED <<git_util_vars, diagnostics,
                   output, view, cache, stats, props, phase, templates, input, made>>

CallTrackingBehind(ok) ==
    /\ made # << >>
    /\ TrackingBehindCount(made[1], ok)
    /\ UNCHANGED <<git_util_vars, diagnostics,
                   output, view, cache, stats, props, phase, templates, input, made>>

NoView ==
    [bookmarks |-> << >>, tags |-> << >>, git_refs |-> << >>,
     git_head |-> RefTarget_absent, immutable_heads |-> {}]

InitRef ==
    /\ IdleLanguage
    /\ view = NoView
    /\ counts = NoCounts
    /\ walks = NoWalks
    /\ last = Nothing
    /\ input = Nothing
    /\ made = << >>
    /\ output = << >>
    /\ diagnostics = << >>
    /\ NoGitUtil

\* a format that writes the two sigils independently
CommitRef_format_both(self) ==
    <<self.name>>
    \o (IF self.remote # << >> THEN <<"@", self.remote[1]>> ELSE << >>)
    \o (IF has_conflict(self.target) THEN <<"??">> ELSE << >>)
    \o (IF is_local(self) /\ ~self.synced THEN <<"*">> ELSE << >>)

\* Template::format of Rc<CommitRef>: the pieces written to the formatter
CommitRef_format(self) ==
    <<self.name>>
    \o (IF self.remote # << >> THEN <<"@", self.remote[1]>> ELSE << >>)
    \o (IF has_conflict(self.target) THEN <<"??">>
        ELSE IF is_local(self) /\ ~self.synced THEN <<"*">>
        ELSE << >>)

\* the ref made is rendered
FormatCommitRef ==
    /\ made # << >>
    /\ output = << >>
    /\ output' = <<CommitRef_format(made[1])>>
    /\ UNCHANGED <<git_util_vars, diagnostics,
                   view, cache, stats, counts, walks, props, phase, templates,
                   last, input, made>>

NextRef ==
    \/ \E t \in Targets, rs \in RemoteRefLists : MakeLocal(t, rs)
    \/ \E t \in Targets : MakeLocalOnly(t)
    \/ \E r \in RemoteRefs, t \in Targets : MakeRemote(r, t)
    \/ \E t \in Targets : MakeRemoteOnly(t)
    \/ \E ok \in BOOLEAN : CallTrackingAhead(ok)
    \/ \E ok \in BOOLEAN : CallTrackingBehind(ok)
    \/ FormatCommitRef

SpecRef == InitRef /\ [][NextRef]_vars

----------------------------------------------------------------------------
(* SpecIndex: the three indices of the keyword cache built over a view     *)
(* drawn from the namespaces below, and looked up by commit id.            *)

IndexTargets ==
    {RefTarget_absent, RefTarget_normal("c1"), RefTarget_normal("c4"),
     << <<"c4">>, <<"c0">>, <<"c1">> >>}

\* remote refs stored in a view are present
ViewRemoteRefLists ==
    {<< >>} \cup
    {<< [remote |-> "origin", target |-> t, tracked |-> tr] >> :
         t \in {x \in IndexTargets : is_present(x)}, tr \in BOOLEAN}

\* a bookmark of the view has a local target or a remote ref
ViewBookmarks(name) ==
    {b \in [name : {name}, local_target : IndexTargets,
            remote_refs : ViewRemoteRefLists] :
         is_present(b.local_target) \/ b.remote_refs # << >>}

\* view.bookmarks() iterates in name order
BookmarkLists ==
    {<< >>} \cup {<<a>> : a \in ViewBookmarks("a")}
            \cup {<<a, b>> : a \in ViewBookmarks("a"), b \in ViewBookmarks("b")}

IndexTags ==
    << [name |-> "v1", target |-> RefTarget_normal("c1")],
       [name |-> "v2", target |-> << <<"c4">>, <<"c0">>, <<"c1">> >>],
       [name |-> "v3", target |-> RefTarget_normal("c1")] >>

IndexViews ==
    {[bookmarks |-> bs, tags |-> IndexTags, git_refs |-> GitRefs,
      git_head |-> RefTarget_absent, immutable_heads |-> {}] :
         bs \in BookmarkLists}

\* keyword_cache.bookmarks_index(repo) and its two siblings
AccessIndex(ns) ==
    LET acc == IndexAccess(cache, view, stats, ns)
    IN  /\ cache' = WithIndexCell(cache, ns, acc.cell)
        /\ stats' = IF acc.ran THEN [stats EXCEPT !.scans[ns] = @ + 1] ELSE stats
        /\ last' = [op |-> "index", ns |-> ns]
        /\ UNCHANGED <<git_util_vars, diagnostics,
                   output, view, counts, walks, props, phase, templates, input, made>>

\* index.get(id) on a built index
Get(ns, id) ==
    /\ IndexCell(cache, ns) # << >>
    /\ last' = [op |-> "get", ns |-> ns, id |-> id,
                result |-> CommitRefsIndex_get(IndexCell(cache, ns)[1].index, id)]
    /\ UNCHANGED <<git_util_vars, diagnostics,
                   output, view, cache, stats, counts, walks, props, phase, templates,
                   input, made>>

InitIndex ==
    /\ IdleLanguage
    /\ view \in IndexViews
    /\ counts = NoCounts
    /\ walks = NoWalks
    /\ last = Nothing
    /\ input = Nothing
    /\ made = << >>
    /\ output = << >>
    /\ diagnostics = << >>
    /\ NoGitUtil

NextIndex ==
    \/ \E ns \in Namespaces : AccessIndex(ns)
    \/ \E ns \in Namespaces, id \in Commits : Get(ns, id)

SpecIndex == InitIndex /\ [][NextIndex]_vars

----------------------------------------------------------------------------
(* CommitOrChangeId: hex texts and shortest.  An id is a sequence of bytes; *)
(* a hex text is a sequence of one-character strings.                      *)

HexDigits == <<"0", "1", "2", "3", "4", "5", "6", "7",
               "8", "9", "a", "b", "c", "d", "e", "f">>
ReverseHexDigits == <<"z", "y", "x", "w", "v", "u", "t", "s",
                      "r", "q", "p", "o", "n", "m", "l", "k">>

\* hex::encode: two digits per byte, the high nibble first
encode_hex(bytes, digits) ==
    [i \in 1..(2 * Len(bytes)) |->
        LET b == bytes[(i + 1) \div 2]
        IN  IF i % 2 = 1 THEN digits[(b \div 16) + 1] ELSE digits[(b % 16) + 1]]

\* a hex that writes the normal hex of a change id backwards
hex_reversed_text(self) ==
    LET normal == encode_hex(self.id, HexDigits)
    IN  IF self.kind = "Commit" THEN normal
        ELSE [i \in 1..Len(normal) |-> normal[Len(normal) + 1 - i]]

\* CommitOrChangeId::hex: id.hex() for a commit id, id.reverse_hex() for a
\* change id
hex(self) ==
    IF self.kind = "Commit" THEN encode_hex(self.id, HexDigits)
    ELSE encode_hex(self.id, ReverseHexDigits)

\* String::truncate: no effect when new_len is not below the length
truncate(text, new_len) ==
    IF new_len < Len(text) THEN SubSeq(text, 1, new_len) ELSE text

Max(a, b) == IF a > b THEN a ELSE b
Min(a, b) == IF a < b THEN a ELSE b

\* a shortest that adds total_len to the unique prefix length
shortest_sum(self, prefix_len, total_len) ==
    LET truncated == truncate(hex(self), prefix_len + total_len)
    IN  IF prefix_len > Len(truncated) THEN [panic |-> TRUE]
        ELSE [panic |-> FALSE,
              prefix |-> SubSeq(truncated, 1, prefix_len),
              rest |-> SubSeq(truncated, prefix_len + 1, Len(truncated))]

\* a shortest that truncates to total_len alone
shortest_no_max(self, prefix_len, total_len) ==
    LET truncated == truncate(hex(self), total_len)
    IN  IF prefix_len > Len(truncated) THEN [panic |-> TRUE]
        ELSE [panic |-> FALSE,
              prefix |-> SubSeq(truncated, 1, prefix_len),
              rest |-> SubSeq(truncated, prefix_len + 1, Len(truncated))]

\* CommitOrChangeId::shortest: prefix_len is what index.shortest_commit_
\* prefix_len / shortest_change_prefix_len answers for the id.
\* String::split_off panics when prefix_len exceeds the truncated length.
shortest(self, prefix_len, total_len) ==
    LET truncated == truncate(hex(self), Max(prefix_len, total_len))
    IN  IF prefix_len > Len(truncated) THEN [panic |-> TRUE]
        ELSE [panic |-> FALSE,
              prefix |-> SubSeq(truncated, 1, prefix_len),
              rest |-> SubSeq(truncated, prefix_len + 1, Len(truncated))]

\* sample bytes: both nibbles zero, mixed, both fifteen
IdByteValues == {0, 10, 171, 255}

RECURSIVE ByteSeqs(_)
ByteSeqs(n) ==
    IF n = 0 THEN {<< >>}
    ELSE {Append(s, b) : s \in ByteSeqs(n - 1), b \in IdByteValues}

Ids == UNION {ByteSeqs(n) : n \in 1..MaxIdBytes}

\* the index answers with a length of at least one digit and at most the
\* whole hex text
ShortestInputs ==
    {x \in [self : [kind : {"Commit", "Change"}, id : Ids],
            prefix_len : 1..(2 * MaxIdBytes),
            total_len : 0..(2 * MaxIdBytes + MaxExtraLen)] :
         x.prefix_len <= 2 * Len(x.self.id)}

Shortest ==
    /\ last = Nothing
    /\ last' = [op |-> "shortest",
                result |-> shortest(input.self, input.prefix_len, input.total_len)]
    /\ UNCHANGED <<git_util_vars, diagnostics,
                   output, view, cache, stats, counts, walks, props, phase, templates,
                   input, made>>

InitShortest ==
    /\ IdleLanguage
    /\ view = NoView
    /\ counts = NoCounts
    /\ walks = NoWalks
    /\ last = Nothing
    /\ input \in ShortestInputs
    /\ made = << >>
    /\ output = << >>
    /\ diagnostics = << >>
    /\ NoGitUtil

NextShortest == Shortest

SpecShortest == InitShortest /\ [][NextShortest]_vars

----------------------------------------------------------------------------
(* SpecPrefix: templates that call shortest() and shortest(len) on one id, *)
(* bound with a short-prefix index that loads or fails to load, and then   *)
(* rendered.                                                               *)

\* the closure of shortest: id.shortest(repo, &index, len.unwrap_or(0)),
\* where the index bound with the property answers with input.prefix_len
EvalShortest(p) ==
    /\ phase = "render"
    /\ p \in props
    /\ p.kw = "shortest"
    /\ last' = [op |-> "eval_shortest", arg |-> p.arg, loaded |-> p.loaded,
                result |-> shortest(input.self, input.prefix_len,
                                    IF p.arg = "" THEN 0 ELSE input.total_len)]
    /\ UNCHANGED <<git_util_vars, diagnostics, output, view, cache, stats,
                   counts, walks, props, phase, templates, input, made>>

InitPrefix ==
    /\ cache = CommitKeywordCache_default
    /\ stats = NoStats
    /\ props = {}
    /\ phase = "build"
    /\ templates = 1
    /\ view = NoView
    /\ counts = NoCounts
    /\ walks = NoWalks
    /\ last = Nothing
    /\ input \in {x \in ShortestInputs : Len(x.self.id) = 1}
    /\ made = << >>
    /\ output = << >>
    /\ diagnostics = << >>
    /\ NoGitUtil

NextPrefix ==
    \/ \E arg \in {"", "min_len"}, loaded \in BOOLEAN : BuildShortest(arg, loaded)
    \/ FinishBuild
    \/ NewTemplate
    \/ \E p \in props : EvalShortest(p)

SpecPrefix == InitPrefix /\ [][NextPrefix]_vars

----------------------------------------------------------------------------
(* SpecList: the list-valued properties over the store (parents,           *)
(* added_targets, removed_targets, diff.files) and the rendering methods   *)
(* of a TreeDiff.  input is the receiver and the part of the store that    *)
(* cannot be read.                                                         *)

removed_ids(target) ==
    Flatten([i \in 1..(Len(target) \div 2) |-> target[2 * i]])

\* a collect that leaves out the elements that failed
try_collect_readable(results) ==
    LET good == SelectSeq(results, LAMBDA r : r.ok)
    IN  [ok |-> TRUE, value |-> [i \in 1..Len(good) |-> good[i].value]]

\* Iterator::try_collect / TryStreamExt::try_collect into a Vec: the first
\* Err met ends the iteration and is the result
try_collect(results) ==
    LET bad == {i \in 1..Len(results) : ~results[i].ok}
    IN  IF bad = {}
        THEN [ok |-> TRUE, value |-> [i \in 1..Len(results) |-> results[i].value]]
        ELSE [ok |-> FALSE,
              error |-> results[CHOOSE i \in bad : \A j \in bad : i <= j].error]

\* Store::get_commit(id) on every id of a list, in order
get_commits(ids, unreadable) ==
    [i \in 1..Len(ids) |->
        IF ids[i] \in unreadable
        THEN [ok |-> FALSE, error |-> <<"BackendError", ids[i]>>]
        ELSE [ok |-> TRUE, value |-> ids[i]]]

DiffPaths == <<"a", "b">>

\* TreeDiff::diff_stream: the matched paths whose values differ between
\* from_tree and to_tree, in path order; a path of the copy records is
\* given with its source; values is an Err for a path the store cannot read
diff_stream(self) ==
    LET changed(path) == /\ path \in self.matcher
                         /\ self.from_tree[path] # self.to_tree[path]
        entry(path) ==
            [path |-> [source |-> IF path \in DOMAIN self.copy_records
                                  THEN <<self.copy_records[path]>> ELSE << >>,
                       target |-> path],
             values |-> IF path \in self.unreadable
                        THEN [ok |-> FALSE, error |-> <<"BackendError", path>>]
                        ELSE [ok |-> TRUE,
                              value |-> <<self.from_tree[path],
                                          self.to_tree[path]>>]]
    IN  [i \in 1..Len(SelectSeq(DiffPaths, changed)) |->
            entry(SelectSeq(DiffPaths, changed)[i])]

\* TreeDiffEntry::from_backend_entry_with_copies on every entry of a stream
from_backend_entry_with_copies(stream) ==
    [i \in 1..Len(stream) |->
        IF stream[i].values.ok
        THEN [ok |-> TRUE,
              value |-> [path |-> stream[i].path,
                         source_value |-> stream[i].values.value[1],
                         target_value |-> stream[i].values.value[2]]]
        ELSE [ok |-> FALSE, error |-> stream[i].values.error]]

\* the closures of parents, removed_targets, added_targets and files
EvalList(method) ==
    /\ last = Nothing
    /\ method \in input.methods
    /\ last' = [op |-> "eval_list", method |-> method,
                result |->
                    CASE method = "parents" ->
                             try_collect(get_commits(input.parent_ids,
                                                     input.unreadable))
                      [] method = "removed_targets" ->
                             try_collect(get_commits(removed_ids(input.target),
                                                     input.unreadable))
                      [] method = "added_targets" ->
                             try_collect(get_commits(added_ids(input.target),
                                                     input.unreadable))
                      [] method = "files" ->
                             try_collect(from_backend_entry_with_copies(
                                             diff_stream(input)))]
    /\ UNCHANGED <<git_util_vars, diagnostics, output, view, cache, stats,
                   counts, walks, props, phase, templates, input, made>>

\* diff_util::show_color_words_diff, show_git_diff, show_diff_summary and
\* DiffStats::calculate with its rendering, as lists of lines: the lines of
\* the entries in stream order.  The three show functions write what they
\* have when an entry cannot be read and the error is then handled by the
\* formatter; the stat property fails as a whole.
show(method, param, stream) ==
    LET bad == {i \in 1..Len(stream) : ~stream[i].values.ok}
        stop == IF bad = {} THEN Len(stream) + 1
                ELSE CHOOSE i \in bad : \A j \in bad : i <= j
        status(e) == IF e.path.source # << >> THEN "C"
                     ELSE IF e.values.value[1] = "" THEN "A"
                     ELSE IF e.values.value[2] = "" THEN "D" ELSE "M"
        context == IF param = "" THEN "3" ELSE param
        width == IF param = "" THEN "80" ELSE param
        line(e) ==
            CASE method = "summary" -> <<status(e), e.path.target>>
              [] method = "stat" -> <<e.path.target, "|", width>>
              [] method = "git" ->
                     <<"diff --git", e.path.source \o <<e.path.target>>,
                       e.path.target, context,
                       "-" \o e.values.value[1], "+" \o e.values.value[2]>>
              [] method = "color_words" ->
                     <<status(e), e.path.target, context,
                       e.values.value[1], e.values.value[2]>>
        failure == << <<"<Error: ", stream[stop].values.error, ">">> >>
    IN  IF method = "stat" /\ bad # {} THEN failure
        ELSE [i \in 1..(stop - 1) |-> line(stream[i])]
             \o (IF bad # {} THEN failure ELSE << >>)

\* a format whose stream was made once, with the TreeDiffFormatted, and is
\* found drained by every rendering after the first
TreeDiffFormatted_format_drained(self, method, param, formatter) ==
    formatter \o
        << [method |-> method, param |-> param,
            text |-> show(method, param,
                          IF formatter = << >> THEN diff_stream(self)
                          ELSE << >>)] >>

\* impl Template for TreeDiffFormatted, format: show is applied to a stream
\* made by this call; what it writes is appended to the formatter
TreeDiffFormatted_format(self, method, param, formatter) ==
    formatter \o
        << [method |-> method, param |-> param,
            text |-> show(method, param, diff_stream(self))] >>

\* color_words([context]), git([context]), stat([width]) or summary() of
\* the TreeDiff is rendered for one more record
FormatDiff(method, param) ==
    /\ method \in input.methods
    /\ method = "summary" => param = ""
    /\ Len(output) < MaxRecords
    /\ output' = TreeDiffFormatted_format(input, method, param, output)
    /\ UNCHANGED <<git_util_vars, diagnostics, view, cache, stats, counts,
                   walks, props, phase, templates, last, input, made>>

\* receivers: a commit with up to two parents, a ref with its target, and
\* the TreeDiff of two trees over the paths a and b
ListInputs ==
    [methods : {{"parents"}},
     parent_ids : {<< >>, <<"c0">>, <<"c1">>, <<"c0", "c1">>, <<"c1", "c0">>},
     unreadable : SUBSET {"c0", "c1"}]
    \cup [methods : {{"removed_targets", "added_targets"}},
          target : Targets, unreadable : SUBSET {"c0", "c1", "c4"}]
    \cup [methods : {{"files", "color_words", "git", "stat", "summary"}},
          from_tree : [{"a", "b"} -> {"", "x"}],
          to_tree : [{"a", "b"} -> {"", "x", "y"}],
          matcher : {{"a", "b"}, {"a"}},
          copy_records : {[path \in {} |-> ""], [path \in {"b"} |-> "a"]},
          unreadable : {{}, {"b"}}]

InitList ==
    /\ IdleLanguage
    /\ view = NoView
    /\ counts = NoCounts
    /\ walks = NoWalks
    /\ last = Nothing
    /\ input \in ListInputs
    /\ made = << >>
    /\ output = << >>
    /\ diagnostics = << >>
    /\ NoGitUtil

NextList ==
    \/ \E method \in {"parents", "removed_targets", "added_targets", "files"} :
           EvalList(method)
    \/ \E method \in {"color_words", "git", "stat", "summary"},
          param \in {"", "1"} : FormatDiff(method, param)

SpecList == InitList /\ [][NextList]_vars

\* ---------------------------------------------------------------------
\* Rendering of ids: CommitOrChangeId as a template, normal_hex(), and the
\* decoding of a rendered change id.

\* the code point of a character of either alphabet
CharCode(ch) ==
    CASE ch = "0" -> 48 [] ch = "1" -> 49 [] ch = "2" -> 50 [] ch = "3" -> 51
      [] ch = "4" -> 52 [] ch = "5" -> 53 [] ch = "6" -> 54 [] ch = "7" -> 55
      [] ch = "8" -> 56 [] ch = "9" -> 57 [] ch = "a" -> 97 [] ch = "b" -> 98
      [] ch = "c" -> 99 [] ch = "d" -> 100 [] ch = "e" -> 101 [] ch = "f" -> 102
      [] ch = "k" -> 107 [] ch = "l" -> 108 [] ch = "m" -> 109 [] ch = "n" -> 110
      [] ch = "o" -> 111 [] ch = "p" -> 112 [] ch = "q" -> 113 [] ch = "r" -> 114
      [] ch = "s" -> 115 [] ch = "t" -> 116 [] ch = "u" -> 117 [] ch = "v" -> 118
      [] ch = "w" -> 119 [] ch = "x" -> 120 [] ch = "y" -> 121 [] ch = "z" -> 122

\* the value of a digit of the alphabet digits
DigitValue(ch, digits) == (CHOOSE i \in 1..16 : digits[i] = ch) - 1

\* hex decoding: one byte per two digits, the high nibble first
decode_hex(text, digits) ==
    [i \in 1..(Len(text) \div 2) |->
        16 * DigitValue(text[2 * i - 1], digits) + DigitValue(text[2 * i], digits)]

\* the normal_hex method: id.hex() for either kind of id
normal_hex(self) == encode_hex(self.id, HexDigits)

\* Template for CommitOrChangeId: writes hex()
FormatId ==
    /\ last = Nothing
    /\ last' = [op |-> "format", self |-> hex(input.self),
                other |-> hex(input.other)]
    /\ UNCHANGED <<git_util_vars, diagnostics,
                   output, view, cache, stats, counts, walks, props, phase, templates,
                   input, made>>

NormalHex ==
    /\ last = Nothing
    /\ last' = [op |-> "normal_hex", self |-> normal_hex(input.self),
                other |-> normal_hex(input.other)]
    /\ UNCHANGED <<git_util_vars, diagnostics,
                   output, view, cache, stats, counts, walks, props, phase, templates,
                   input, made>>

\* the rendered text of a change id read back in the reversed alphabet and
\* rendered again
DecodeId ==
    /\ last = Nothing
    /\ input.self.kind = "Change"
    /\ LET id == decode_hex(hex(input.self), ReverseHexDigits)
       IN  last' = [op |-> "decode", id |-> id,
                    text |-> hex([kind |-> "Change", id |-> id])]
    /\ UNCHANGED <<git_util_vars, diagnostics,
                   output, view, cache, stats, counts, walks, props, phase, templates,
                   input, made>>

\* two ids of one kind and, as the ids of one repository, of one length
InitHex ==
    /\ IdleLanguage
    /\ view = NoView
    /\ counts = NoCounts
    /\ walks = NoWalks
    /\ last = Nothing
    /\ input \in {x \in [self : [kind : {"Commit", "Change"}, id : Ids],
                         other : [kind : {"Commit", "Change"}, id : Ids]] :
                      /\ x.self.kind = x.other.kind
                      /\ Len(x.self.id) = Len(x.other.id)}
    /\ made = << >>
    /\ output = << >>
    /\ diagnostics = << >>
    /\ NoGitUtil

NextHex ==
    \/ FormatId
    \/ NormalHex
    \/ DecodeId

SpecHex == InitHex /\ [][NextHex]_vars

----------------------------------------------------------------------------
(* Method dispatch: CommitTemplateLanguage::build_method on a receiver of  *)
(* each kind, the boolean coercion of a kind, and the rendering of the     *)
(* built property for the records of a pass.  A value is the sequence of   *)
(* texts it renders to: one text for a plain value, none or one for an     *)
(* optional value, one per item for a list.  A call node is its name, its  *)
(* number of arguments, its depth in lambdas and the call its lambda       *)
(* argument holds; its spans are named by the name and the depth.  The     *)
(* arguments a builder expects are <<least, most>>.                        *)

MaxArgs == 1

OptKinds == {"CommitOpt", "CommitRefOpt", "RepoPathOpt", "CryptographicSignatureOpt"}
ListKinds == {"CommitList", "CommitRefList", "TreeDiffEntryList", "TrailerList"}
PlainKinds == {"Commit", "CommitRef", "RepoPath", "CommitOrChangeId",
               "ShortestIdPrefix", "TreeDiff", "TreeDiffEntry", "TreeEntry",
               "DiffStats", "AnnotationLine", "Trailer"}

\* IntoTemplateProperty::type_name
type_name(property) ==
    CASE property.kind = "Core" -> property.core
      [] property.kind = "CommitOpt" -> "Option<Commit>"
      [] property.kind = "CommitList" -> "List<Commit>"
      [] property.kind = "CommitRefOpt" -> "Option<CommitRef>"
      [] property.kind = "CommitRefList" -> "List<CommitRef>"
      [] property.kind = "RepoPathOpt" -> "Option<RepoPath>"
      [] property.kind = "TreeDiffEntryList" -> "List<TreeDiffEntry>"
      [] property.kind = "CryptographicSignatureOpt" -> "Option<CryptographicSignature>"
      [] property.kind = "TrailerList" -> "List<Trailer>"
      [] OTHER -> property.kind

\* a table that holds every name
build_fn_table_open(kind) ==
    [n \in {"foo", "name", "len", "commit_id", "status"} |-> <<0, 0>>]

\* the method table build_method selects for a kind, as filled by the
\* builtin_*_methods functions: the arguments each builder expects
build_fn_table(kind) ==
    CASE kind \in {"Commit", "CommitOpt"} ->
             [n \in {"description", "trailers", "change_id", "commit_id",
                     "parents", "author", "committer", "mine", "signature",
                     "working_copies", "current_working_copy", "bookmarks",
                     "local_bookmarks", "remote_bookmarks", "tags", "git_refs",
                     "git_head", "divergent", "hidden", "immutable",
                     "contained_in", "conflict", "empty", "diff", "root"} |->
                 CASE n = "contained_in" -> <<1, 1>>
                   [] n = "diff" -> <<0, 1>>
                   [] OTHER -> <<0, 0>>]
      [] kind \in {"CommitRef", "CommitRefOpt"} ->
             [n \in {"name", "remote", "present", "conflict", "normal_target",
                     "removed_targets", "added_targets", "tracked",
                     "tracking_present", "tracking_ahead_count",
                     "tracking_behind_count"} |-> <<0, 0>>]
      [] kind \in {"RepoPath", "RepoPathOpt"} ->
             [n \in {"display", "parent"} |-> <<0, 0>>]
      [] kind = "CommitOrChangeId" ->
             [n \in {"normal_hex", "short", "shortest"} |->
                 IF n = "normal_hex" THEN <<0, 0>> ELSE <<0, 1>>]
      [] kind = "ShortestIdPrefix" ->
             [n \in {"prefix", "rest", "upper", "lower"} |-> <<0, 0>>]
      [] kind = "TreeDiff" ->
             [n \in {"files", "color_words", "git", "stat", "summary"} |->
                 IF n \in {"files", "summary"} THEN <<0, 0>> ELSE <<0, 1>>]
      [] kind = "TreeDiffEntry" ->
             [n \in {"path", "status", "source", "target"} |-> <<0, 0>>]
      [] kind = "TreeEntry" ->
             [n \in {"path", "conflict", "file_type", "executable"} |-> <<0, 0>>]
      [] kind = "DiffStats" ->
             [n \in {"total_added", "total_removed"} |-> <<0, 0>>]
      [] kind = "CryptographicSignatureOpt" ->
             [n \in {"status", "key", "display"} |-> <<0, 0>>]
      [] kind = "AnnotationLine" ->
             [n \in {"commit", "content", "line_number", "first_line_in_hunk"} |->
                 <<0, 0>>]
      [] kind = "Trailer" -> [n \in {"key", "value"} |-> <<0, 0>>]

\* a lookup name that is the kind's own type name
lookup_type_name_own(property) == type_name(property)

\* the name build_method hands to lookup_method and to try_unwrap
lookup_type_name(property) ==
    CASE property.kind = "CommitOpt" -> "Commit"
      [] property.kind = "CommitRefOpt" -> "CommitRef"
      [] property.kind = "RepoPathOpt" -> "RepoPath"
      [] property.kind = "CryptographicSignatureOpt" -> "CryptographicSignature"
      [] property.kind = "AnnotationLine" -> "AnnotationLine"
      [] OTHER -> type_name(property)

\* the item kind a list method wraps the lambda parameter in
ItemKind(kind) ==
    CASE kind = "CommitList" -> "Commit"
      [] kind = "CommitRefList" -> "CommitRef"
      [] kind = "TreeDiffEntryList" -> "TreeDiffEntry"
      [] kind = "TrailerList" -> "Trailer"

\* template_parser::lookup_method: the error carries function.name_span
lookup_method(name_of_type, table, function) ==
    IF function.name \in DOMAIN table
    THEN [ok |-> TRUE, value |-> table[function.name]]
    ELSE [ok |-> FALSE,
          error |-> [kind |-> "NoSuchMethod", type_name |-> name_of_type,
                     name |-> function.name,
                     span |-> [of |-> "name", name |-> function.name,
                               depth |-> function.depth]]]

\* FunctionCallNode::expect_no_arguments, expect_exact_arguments and
\* expect_arguments: the error carries function.args_span
expect_arguments(function, arity) ==
    IF arity[1] <= function.args /\ function.args <= arity[2]
    THEN [ok |-> TRUE, value |-> function.args]
    ELSE [ok |-> FALSE,
          error |-> [kind |-> "InvalidArguments", name |-> function.name,
                     message |-> IF arity[2] = 0 THEN "Expected 0 arguments"
                                 ELSE IF arity[1] = arity[2]
                                 THEN "Expected 1 arguments"
                                 ELSE "Expected 0 to 1 arguments",
                     span |-> [of |-> "args", name |-> function.name,
                               depth |-> function.depth]]]

\* a builder that does not look at the arguments
build_unchecked(arity, self_property, function) ==
    [ok |-> TRUE,
     value |-> [node |-> "method", name |-> function.name, self |-> self_property]]

\* a builder of a method table: the argument check, then the closure over
\* the receiver
build(arity, self_property, function) ==
    LET checked == expect_arguments(function, arity)
    IN  IF checked.ok
        THEN [ok |-> TRUE,
              value |-> [node |-> "method", name |-> function.name,
                         self |-> self_property]]
        ELSE checked

\* a receiver handed to the builder as it is
inner_property_as_is(property) == property

\* the receiver build_method hands to the builder: property.try_unwrap(
\* type_name) for an optional kind
inner_property(property) ==
    IF property.kind \in OptKinds
    THEN [node |-> "try_unwrap", self |-> property,
          type_name |-> lookup_type_name(property)]
    ELSE property

\* CommitTemplateLanguage::build_method, with the calls it made.  The core
\* table and the list methods other than map are outside this module: found
\* says whether they hold the method name.
RECURSIVE build_method(_, _, _)
build_method(property, function, found) ==
    IF /\ property.kind \in ListKinds
       /\ function.name = "map"
       /\ function.body # << >>
    THEN LET checked == expect_arguments(function, <<1, 1>>)
             body == build_method([node |-> "item", core |-> "",
                                   kind |-> ItemKind(property.kind)],
                                  function.body[1], found)
         IN  IF ~checked.ok
             THEN [ok |-> FALSE, error |-> checked.error, trace |-> <<"lookup">>]
             ELSE IF ~body.ok
             THEN [ok |-> FALSE, error |-> body.error,
                   trace |-> <<"lookup">> \o body.trace]
             ELSE [ok |-> TRUE,
                   value |-> [node |-> "map", self |-> property,
                              body |-> body.value],
                   trace |-> <<"lookup">> \o body.trace]
    ELSE LET table == IF property.kind \in PlainKinds \cup OptKinds
                      THEN build_fn_table(property.kind)
                      ELSE IF found THEN [n \in {function.name} |-> <<0, 0>>]
                      ELSE [n \in {} |-> <<0, 0>>]
             looked == lookup_method(lookup_type_name(property), table, function)
             built == build(looked.value, inner_property(property), function)
         IN  IF ~looked.ok
             THEN [ok |-> FALSE, error |-> looked.error, trace |-> <<"lookup">>]
             ELSE IF ~built.ok
             THEN [ok |-> FALSE, error |-> built.error,
                   trace |-> <<"lookup", "build">>]
             ELSE [ok |-> TRUE, value |-> built.value,
                   trace |-> <<"lookup", "build">>]

\* a coercion that the optional kinds do not have
try_into_boolean_lists_only(property) ==
    CASE property.kind = "Core" ->
             IF property.core = "Boolean" THEN <<property>> ELSE << >>
      [] property.kind \in ListKinds ->
             <<[node |-> "not_empty", self |-> property]>>
      [] OTHER -> << >>

\* IntoTemplateProperty::try_into_boolean: the boolean property, if the kind
\* has one
try_into_boolean(property) ==
    CASE property.kind = "Core" ->
             IF property.core = "Boolean" THEN <<property>> ELSE << >>
      [] property.kind \in OptKinds ->
             <<[node |-> "is_some", self |-> property]>>
      [] property.kind \in ListKinds ->
             <<[node |-> "not_empty", self |-> property]>>
      [] OTHER -> << >>

\* the evaluation of try_unwrap
unwrap(value, name_of_type) ==
    IF value = << >>
    THEN [ok |-> FALSE, error |-> "No " \o name_of_type \o " available"]
    ELSE [ok |-> TRUE, value |-> value]

\* TemplateProperty::extract for one record; item is the lambda parameter
RECURSIVE extract(_, _, _)
extract(property, record, item) ==
    IF property.node = "self"
    THEN [ok |-> TRUE, value |-> property.values[record]]
    ELSE IF property.node = "item" THEN [ok |-> TRUE, value |-> item]
    ELSE LET self == extract(property.self, record, item)
         IN  IF ~self.ok THEN self
             ELSE CASE property.node = "try_unwrap" ->
                           unwrap(self.value, property.type_name)
                    [] property.node = "method" ->
                           [ok |-> TRUE, value |-> <<property.name>>]
                    [] property.node = "is_some" ->
                           [ok |-> TRUE,
                            value |-> <<IF self.value # << >> THEN "true"
                                        ELSE "false">>]
                    [] property.node = "not_empty" ->
                           [ok |-> TRUE,
                            value |-> <<IF Len(self.value) > 0 THEN "true"
                                        ELSE "false">>]
                    [] property.node = "map" ->
                           LET each == [i \in 1..Len(self.value) |->
                                           extract(property.body, record,
                                                   <<self.value[i]>>)]
                               failed == {i \in 1..Len(self.value) : ~each[i].ok}
                           IN  IF failed # {}
                               THEN each[CHOOSE i \in failed :
                                             \A j \in failed : i <= j]
                               ELSE [ok |-> TRUE,
                                     value |-> [i \in 1..Len(self.value) |->
                                                   each[i].value[1]]]

\* the template "[" ++ property ++ "]" written for one record: an
\* evaluation error is written in place of the value
render(property, record) ==
    LET content == extract(property, record, << >>)
    IN  <<"[">> \o (IF content.ok THEN content.value
                    ELSE <<"<Error: " \o content.error \o ">">>) \o <<"]">>

\* method names whose builder checks the arguments and wraps a closure, the
\* list and core method len, and a name no table has
SampleNames ==
    {"description", "commit_id", "change_id", "name", "remote", "display",
     "parent", "normal_hex", "prefix", "rest", "files", "path", "status",
     "total_added", "key", "value", "content", "len", "foo"}

\* plain calls, and map calls whose lambda holds a plain call
CallNodes ==
    {[name |-> n, args |-> a, depth |-> 0, body |-> << >>] :
         n \in SampleNames, a \in 0..MaxArgs}
    \cup {[name |-> "map", args |-> a, depth |-> 0,
           body |-> <<[name |-> n, args |-> b, depth |-> 1, body |-> << >>]>>] :
              n \in {"commit_id", "name", "foo"}, a \in 1..MaxArgs, b \in 0..MaxArgs}

\* the values a receiver of a kind takes for one record
ValuesOf(kind, core) ==
    CASE kind = "RepoPathOpt" -> {<< >>, <<"">>, <<"x">>}
      [] kind \in OptKinds \ {"RepoPathOpt"} -> {<< >>, <<"x">>}
      [] kind \in ListKinds -> {<< >>, <<"x">>}
      [] kind = "Core" /\ core = "Boolean" -> {<<"true">>, <<"false">>}
      [] kind = "Core" /\ core = "Integer" -> {<<"0">>}
      [] OTHER -> {<<"x">>}

\* the receiver properties: one of each kind, the core kind as a type with
\* a boolean coercion and as one without
Receivers ==
    UNION {{[node |-> "self", kind |-> k, core |-> "", values |-> v] :
                v \in [1..MaxRecords -> ValuesOf(k, "")]} :
               k \in PlainKinds \cup OptKinds \cup ListKinds}
    \cup UNION {{[node |-> "self", kind |-> "Core", core |-> c, values |-> v] :
                     v \in [1..MaxRecords -> ValuesOf("Core", c)]} :
                    c \in {"Boolean", "Integer"}}

\* a method call on the receiver is bound
BuildMethod(found) ==
    /\ phase = "build"
    /\ last = Nothing
    /\ LET built == build_method(input.receiver, input.function, found)
       IN  /\ made' = IF built.ok THEN <<built.value>> ELSE << >>
           /\ phase' = IF built.ok THEN "render" ELSE "aborted"
           /\ last' = [op |-> "build_method", ok |-> built.ok,
                       error |-> IF built.ok THEN << >> ELSE <<built.error>>,
                       trace |-> built.trace]
    /\ UNCHANGED <<git_util_vars, diagnostics,
                   output, view, cache, stats, counts, walks, props, templates,
                   input>>

\* the receiver is used as a condition
CoerceBoolean ==
    /\ phase = "build"
    /\ last = Nothing
    /\ LET coerced == try_into_boolean(input.receiver)
       IN  /\ made' = coerced
           /\ phase' = IF coerced = << >> THEN "aborted" ELSE "render"
           /\ last' = [op |-> "try_into_boolean", ok |-> coerced # << >>,
                       error |-> << >>, trace |-> << >>]
    /\ UNCHANGED <<git_util_vars, diagnostics,
                   output, view, cache, stats, counts, walks, props, templates,
                   input>>

\* the next record of the pass is rendered with the built property
RenderRecord ==
    /\ phase = "render"
    /\ made # << >>
    /\ Len(output) < MaxRecords
    /\ output' = Append(output, render(made[1], Len(output) + 1))
    /\ UNCHANGED <<git_util_vars, diagnostics,
                   view, cache, stats, counts, walks, props, phase, templates,
                   last, input, made>>

InitMethod ==
    /\ cache = CommitKeywordCache_default
    /\ stats = NoStats
    /\ props = {}
    /\ phase = "build"
    /\ templates = 1
    /\ view = NoView
    /\ counts = NoCounts
    /\ walks = NoWalks
    /\ last = Nothing
    /\ input \in [receiver : Receivers, function : CallNodes]
    /\ made = << >>
    /\ output = << >>
    /\ diagnostics = << >>
    /\ NoGitUtil

NextMethod ==
    \/ \E found \in BOOLEAN : BuildMethod(found)
    \/ CoerceBoolean
    \/ RenderRecord

SpecMethod == InitMethod /\ [][NextMethod]_vars

----------------------------------------------------------------------------
(* git_util: the progress bar, the Progress of a transfer and the writer   *)
(* of sideband progress messages.  A progress value is a number of         *)
(* sixteenths, which f32 holds exactly; a byte is a one-byte text or one   *)
(* of "CR", "LF", "NUL"; the prefix and the suffix of the writer are one   *)
(* token each.                                                             *)

CHARS == <<" ", "1/8", "2/8", "3/8", "4/8", "5/8", "6/8", "7/8", "8/8">>

\* a draw_progress without the clamp; the conversion of a negative f32 to
\* usize still gives zero
draw_progress_unclamped(progress_, buffer, width) ==
    LET ticks == (width * Max(0, progress_) * 8 + 8) \div 16
        whole == ticks \div 8
    IN  buffer \o [i \in 1..whole |-> CHARS[9]]
               \o (IF whole < width THEN <<CHARS[(ticks % 8) + 1]>> ELSE << >>)
               \o [i \in 1..(width - whole - 1) |-> CHARS[1]]

\* draw_progress: ticks is width * clamp(progress) * 8 rounded half up, with
\* progress_ the progress in sixteenths
draw_progress(progress_, buffer, width) ==
    LET ticks == (width * Max(0, Min(progress_, 16)) * 8 + 8) \div 16
        whole == ticks \div 8
    IN  buffer \o [i \in 1..whole |-> CHARS[9]]
               \o (IF whole < width THEN <<CHARS[(ticks % 8) + 1]>> ELSE << >>)
               \o [i \in 1..(width - whole - 1) |-> CHARS[1]]

Progress_new(t) ==
    [next_print |-> t + INITIAL_DELAY, rate |-> << >>, buffer |-> << >>,
     guard |-> << >>]

\* a threshold that advances from the previous threshold
next_print_from_threshold(self, t) == self.next_print + 1000000 \div UPDATE_HZ

\* Progress::update, the assignment of next_print after the throttle:
\* now + Duration::from_secs(1) / UPDATE_HZ
next_print_from_now(self, t) == t + 1000000 \div UPDATE_HZ

\* a step that hides the cursor and installs a guard at every output
hide_cursor_always(self, t) ==
    [guard |-> << [restore |-> "Show", installed |-> t] >>,
     writes |-> << [at |-> t, kind |-> "hide"] >>]

\* Progress::update, the block under self.guard.is_none(): the guard that
\* restores the cursor is made and kept, and cursor::Hide is written
hide_cursor(self, t) ==
    IF self.guard = << >>
    THEN [guard |-> << [restore |-> "Show", installed |-> t] >>,
          writes |-> << [at |-> t, kind |-> "hide"] >>]
    ELSE [guard |-> self.guard, writes |-> << >>]

\* Progress::update(now, progress, output): the Progress after the call and
\* what the call wrote.  The texts of the byte total and of the rate take
\* 10 and 15 columns (a KiB total, a KiB/s rate).
Progress_update(self, t, progress_, term_width) ==
    IF progress_.overall = 16
    THEN [self |-> self, writes |-> << [at |-> t, kind |-> "clear"] >>]
    ELSE LET known == progress_.bytes_downloaded # << >>
             rate == known /\ self.rate # << >>
             sampled == [self EXCEPT
                            !.rate = IF known THEN << [last_sample |-> t] >>
                                     ELSE self.rate]
             cursor == hide_cursor(self, t)
             text_len == 5 + (IF known THEN 10 ELSE 0) + (IF rate THEN 15 ELSE 0)
             bar_width ==
                 Max(0, (IF term_width = << >> THEN 0 ELSE term_width[1])
                            - (text_len + 2))
             buffer ==
                 [percent |-> (200 * progress_.overall + 16) \div 32,
                  total |-> progress_.bytes_downloaded, rate |-> rate,
                  bar |-> draw_progress(progress_.overall, << >>, bar_width)]
         IN  IF t < self.next_print THEN [self |-> sampled, writes |-> << >>]
             ELSE [self |-> [sampled EXCEPT
                                !.next_print = next_print_from_now(self, t),
                                !.guard = cursor.guard,
                                !.buffer = buffer],
                   writes |-> cursor.writes
                              \o << [at |-> t, kind |-> "line", line |-> buffer] >>]

GitSidebandProgressMessageWriter_new(is_terminal) ==
    [display_prefix |-> <<"remote: ">>,
     suffix |-> IF is_terminal THEN <<"ESC[K">> ELSE <<"        ">>,
     scratch |-> << >>]

RECURSIVE GitSidebandProgressMessageWriter_write(_, _, _, _)
\* GitSidebandProgressMessageWriter::write from the byte at index on:
\* written is what has gone to ui.status() so far, one element per write_all
GitSidebandProgressMessageWriter_write(self, progress_message, index, written) ==
    LET breaks == {i \in index..Len(progress_message) :
                       progress_message[i] \in {"CR", "LF"}}
    IN  IF breaks = {}
        THEN [self |->
                  IF index <= Len(progress_message) /\ progress_message[index] # "NUL"
                  THEN [self EXCEPT !.scratch =
                           (IF self.scratch = << >> THEN self.display_prefix
                            ELSE self.scratch)
                           \o SubSeq(progress_message, index, Len(progress_message))]
                  ELSE self,
              written |-> written]
        ELSE LET i == CHOOSE k \in breaks : \A j \in breaks : k <= j
                 line_length == i - index
                 cleared == IF self.scratch # << >> /\ line_length = 0
                            THEN self.scratch \o self.suffix ELSE self.scratch
                 prefixed == IF cleared = << >> THEN self.display_prefix
                             ELSE cleared
                 line == IF line_length > 0
                         THEN prefixed \o SubSeq(progress_message, index, i - 1)
                                       \o self.suffix
                         ELSE prefixed
             IN  GitSidebandProgressMessageWriter_write(
                     [self EXCEPT !.scratch = << >>], progress_message, i + 1,
                     Append(written, Append(line, progress_message[i])))

GitSidebandProgressMessageWriter_flush(self) ==
    IF self.scratch # << >>
    THEN [self |-> [self EXCEPT !.scratch = << >>],
          written |-> << Append(self.scratch, "LF") >>]
    ELSE [self |-> self, written |-> << >>]

\* draw_progress on a buffer of its own
DrawProgress ==
    /\ "width" \in DOMAIN input
    /\ last = Nothing
    /\ last' = [op |-> "draw_progress",
                buffer |-> draw_progress(input.progress, input.buffer, input.width)]
    /\ UNCHANGED <<git_util_vars, diagnostics, output, view, cache, stats,
                   counts, walks, props, phase, templates, input, made>>

\* the progress callback: progress.update(Instant::now(), x, &mut output),
\* called duration after the call before it
Update(duration, overall, bytes_downloaded) ==
    /\ progress # << >>
    /\ (IF last.op = "update" THEN last.calls ELSE 0) < MaxUpdates
    /\ LET r == Progress_update(progress[1], now + duration,
                                [overall |-> overall,
                                 bytes_downloaded |-> bytes_downloaded],
                                input.term_width)
       IN  /\ now' = now + duration
           /\ progress' = <<r.self>>
           /\ output' = output \o r.writes
           /\ last' = [op |-> "update",
                       calls |-> (IF last.op = "update" THEN last.calls ELSE 0) + 1,
                       overall |-> overall,
                       next_print |-> progress[1].next_print,
                       wrote |-> r.writes # << >>]
    /\ UNCHANGED <<writer, diagnostics, view, cache, stats, counts, walks,
                   props, phase, templates, input, made>>

\* the sideband callback: the next len bytes of the stream arrive as one
\* packet
Write(len) ==
    /\ writer # << >>
    /\ last.op # "flush"
    /\ LET consumed == IF last.op = "write" THEN last.consumed ELSE 0
           packet == SubSeq(input.stream, consumed + 1, consumed + len)
           r == GitSidebandProgressMessageWriter_write(writer[1], packet, 1, << >>)
       IN  /\ consumed + len <= Len(input.stream)
           /\ writer' = <<r.self>>
           /\ output' = output \o r.written
           /\ last' = [op |-> "write", consumed |-> consumed + len,
                       packet |-> packet, scratch |-> writer[1].scratch,
                       written |-> r.written]
    /\ UNCHANGED <<progress, now, diagnostics, view, cache, stats, counts,
                   walks, props, phase, templates, input, made>>

\* the flush at the end of the transfer
Flush ==
    /\ writer # << >>
    /\ last.op # "flush"
    /\ (IF last.op = "write" THEN last.consumed ELSE 0) = Len(input.stream)
    /\ LET r == GitSidebandProgressMessageWriter_flush(writer[1])
       IN  /\ writer' = <<r.self>>
           /\ output' = output \o r.written
           /\ last' = [op |-> "flush", written |-> r.written]
    /\ UNCHANGED <<progress, now, diagnostics, view, cache, stats, counts,
                   walks, props, phase, templates, input, made>>

RECURSIVE Streams(_)
Streams(n) ==
    IF n = 0 THEN {<< >>}
    ELSE Streams(n - 1)
         \cup {Append(s, b) : s \in {x \in Streams(n - 1) : Len(x) = n - 1},
                              b \in {"a", "CR", "LF", "NUL"}}

\* a bar to draw, a transfer to report on a terminal of some width or of
\* no known width, or a sideband stream to pass on
GitUtilInputs ==
    [width : 0..MaxWidth, progress : (0 - 4)..20, buffer : {<< >>, <<"[">>}]
    \cup [start : {0, 5000}, term_width : {<< >>, <<25>>}]
    \cup [stream : Streams(MaxStream), is_terminal : BOOLEAN]

InitGitUtil ==
    /\ IdleLanguage
    /\ view = NoView
    /\ counts = NoCounts
    /\ walks = NoWalks
    /\ last = Nothing
    /\ input \in GitUtilInputs
    /\ made = << >>
    /\ output = << >>
    /\ diagnostics = << >>
    /\ progress = IF "start" \in DOMAIN input
                  THEN <<Progress_new(input.start)>> ELSE << >>
    /\ now = IF "start" \in DOMAIN input THEN input.start ELSE 0
    /\ writer = IF "stream" \in DOMAIN input
                THEN <<GitSidebandProgressMessageWriter_new(input.is_terminal)>>
                ELSE << >>

NextGitUtil ==
    \/ DrawProgress
    \/ \E duration \in {1000, 1000000 \div UPDATE_HZ, INITIAL_DELAY - 1000},
          overall \in {3, 16}, bytes_downloaded \in {<< >>, <<2048>>} :
           Update(duration, overall, bytes_downloaded)
    \/ \E len \in 1..MaxStream : Write(len)
    \/ Flush

SpecGitUtil == InitGitUtil /\ [][NextGitUtil]_vars

----------------------------------------------------------------------------
(* Properties *)

IndexKeywordProps == {p \in props : p.kw \in RefsKeywords}

\* C1 as stated: no builder reads the repository; every property bound so
\* far was built without a repository read.
C1_NoReadAtBuild == \A p \in props : p.build_reads = {}

\* C1, amended: only the builders of bookmarks, local_bookmarks,
\* remote_bookmarks, tags, git_refs (the scan of their namespace, when the
\* index cell is still empty), immutable (the revset evaluation, when its
\* cell is still empty), contained_in (the revset evaluation, at every build)
\* and shortest (the id-prefix index population, at every build) read the
\* repository while binding; every other builder reads nothing of it before
\* its property is invoked.
C1_OnlyCachedBuildersRead ==
    \A p \in props :
        /\ p.kw \in SimpleKeywords => p.build_reads = {}
        /\ p.kw \in RefsKeywords =>
               /\ p.build_reads \subseteq {"view." \o KeywordNamespace(p.kw)}
               /\ \A q \in IndexKeywordProps :
                      /\ q # p
                      /\ KeywordNamespace(q.kw) = KeywordNamespace(p.kw)
                      => p.build_reads = {} \/ q.build_reads = {}
        /\ p.kw = "immutable" => p.build_reads \subseteq {"revset.evaluate"}
        /\ p.kw = "contained_in" => p.build_reads = {"revset.evaluate"}
        /\ p.kw = "shortest" => p.build_reads = {"id_prefix.populate"}

\* a template that binds a keyword without a read next to one whose builder
\* scanned its namespace
C1_Witness ==
    \E p \in props, q \in props :
        /\ p.kw \in SimpleKeywords
        /\ q.kw \in RefsKeywords
        /\ q.build_reads # {}

\* C2: each ref index is built by at most one scan of its namespace, a built
\* index is never modified, and every property bound to a keyword of a
\* namespace holds the one shared index of that namespace.
C2_IndexBuiltOnceAndShared ==
    /\ [](\A ns \in Namespaces :
              /\ stats.scans[ns] <= 1
              /\ stats.scans[ns] = 0 <=> IndexCell(cache, ns) = << >>
              /\ \A p \in IndexKeywordProps :
                     KeywordNamespace(p.kw) = ns =>
                         IndexCell(cache, ns) = <<[rc |-> p.rc, index |-> p.index]>>)
    /\ [][\A ns \in Namespaces :
              IndexCell(cache, ns) # << >> =>
                  IndexCell(cache', ns) = IndexCell(cache, ns)]_vars

\* the second template binds two bookmark keywords onto the index the first
\* template built
C2_Witness ==
    /\ templates = 2
    /\ stats.scans["bookmarks"] = 1
    /\ \E p \in props, q \in props :
           /\ p.kw = "local_bookmarks" /\ q.kw = "remote_bookmarks"
           /\ p.build_reads = {} /\ q.build_reads = {}
           /\ p.rc = q.rc

\* C3 as stated: the immutable revset is evaluated at most once and the graph
\* is walked at most once per tracked ref and direction.
C3_ComputedAtMostOnce ==
    /\ stats.imm_evals <= 1
    /\ \A k \in DOMAIN walks : walks[k].ahead <= 1 /\ walks[k].behind <= 1

\* C3, amended: each of the three computations succeeds at most once; a
\* failed attempt leaves the cell empty and is made again at the next
\* access, and once a cell is filled it keeps its value and nothing is
\* computed for it again.
C3_SucceedsAtMostOnce ==
    /\ [](/\ stats.imm_ok <= 1
          /\ stats.imm_ok = 1 <=> cache.is_immutable_fn # << >>
          /\ \A k \in DOMAIN walks :
                 walks[k].ahead_ok <= 1 /\ walks[k].behind_ok <= 1)
    /\ [][/\ cache.is_immutable_fn # << >> =>
                 /\ cache'.is_immutable_fn = cache.is_immutable_fn
                 /\ stats'.imm_evals = stats.imm_evals
          /\ \A k \in DOMAIN counts :
                 /\ counts[k].ahead_count # << >> =>
                        /\ counts'[k].ahead_count = counts[k].ahead_count
                        /\ walks'[k].ahead = walks[k].ahead
                 /\ counts[k].behind_count # << >> =>
                        /\ counts'[k].behind_count = counts[k].behind_count
                        /\ walks'[k].behind = walks[k].behind]_vars

\* in the second template, a count answered from its cell after a failed and
\* a successful walk, the immutable predicate being cached
C3_Witness ==
    /\ templates = 2
    /\ stats.imm_ok = 1
    /\ last.op = "tracking_ahead_count"
    /\ last.result[1] = "Ok"
    /\ \E k \in DOMAIN walks :
           /\ walks[k].ahead = 2 /\ walks[k].ahead_ok = 1
           /\ walks[k].behind >= 1
           /\ counts[k].ahead_count = <<last.result[2]>>

\* the refs a scan constructs, in the order it constructs them
BookmarkRefs(b) ==
    LET remote_refs == [i \in DOMAIN b.remote_refs |->
                           [target |-> b.remote_refs[i].target,
                            tracked |-> b.remote_refs[i].tracked]]
    IN  (IF is_present(b.local_target)
         THEN <<CommitRef_local(b.name, b.local_target, remote_refs)>>
         ELSE << >>)
        \o [i \in DOMAIN b.remote_refs |->
               CommitRef_remote(b.name, b.remote_refs[i].remote, remote_refs[i],
                                b.local_target)]

RECURSIVE ConcatAll(_)
ConcatAll(seqs) ==
    IF seqs = << >> THEN << >> ELSE Head(seqs) \o ConcatAll(Tail(seqs))

ScanOrder(ns) ==
    CASE ns = "bookmarks" ->
             ConcatAll([i \in DOMAIN view.bookmarks |-> BookmarkRefs(view.bookmarks[i])])
      [] ns = "tags" ->
             [i \in DOMAIN view.tags |->
                 CommitRef_local_only(view.tags[i].name, view.tags[i].target)]
      [] ns = "git_refs" ->
             [i \in DOMAIN view.git_refs |->
                 CommitRef_local_only(view.git_refs[i].name, view.git_refs[i].target)]

TargetingRefs(ns, id) ==
    LET Targeting(r) == id \in Range(added_ids(r.target))
    IN  SelectSeq(ScanOrder(ns), Targeting)

\* C4: get(id) on a built index returns, in scan order, exactly the
\* constructed refs whose target's added ids include id: the empty sequence
\* when there is none.
C4_GetReturnsTargetingRefs ==
    /\ \A ns \in Namespaces :
           IndexCell(cache, ns) # << >> =>
               \A id \in Commits :
                   CommitRefsIndex_get(IndexCell(cache, ns)[1].index, id)
                       = TargetingRefs(ns, id)
    /\ last.op = "get" => last.result = TargetingRefs(last.ns, last.id)

\* a lookup that returns the local and the remote ref of two bookmarks, the
\* local ref of each before its remote ref, for a view that leaves another
\* commit without any ref
C4_Witness ==
    /\ last.op = "get"
    /\ last.ns = "bookmarks"
    /\ Len(last.result) = 4
    /\ is_local(last.result[1]) /\ is_remote(last.result[2])
    /\ last.result[1].name = last.result[2].name
    /\ is_local(last.result[3]) /\ is_remote(last.result[4])
    /\ \E id \in Commits :
           CommitRefsIndex_get(IndexCell(cache, "bookmarks")[1].index, id) = << >>

\* C5: a local ref is synced exactly when no tracked remote ref given to the
\* constructor has a target other than the local target.
C5_LocalSynced ==
    (made # << >> /\ input.fn \in {"local", "local_only"}) =>
        LET remote_refs == IF input.fn = "local" THEN input.remote_refs ELSE << >>
            unsynced == {i \in DOMAIN remote_refs :
                            remote_refs[i].tracked
                            /\ remote_refs[i].target # input.target}
        IN  /\ made[1].synced <=> unsynced = {}
            /\ (\A i \in DOMAIN remote_refs : ~remote_refs[i].tracked)
                   => made[1].synced

\* a synced local ref next to an untracked remote ref that points elsewhere
\* and a tracked one that points to the local target
C5_Witness ==
    /\ made # << >>
    /\ input.fn = "local"
    /\ made[1].synced
    /\ \E i \in DOMAIN input.remote_refs, j \in DOMAIN input.remote_refs :
           /\ ~input.remote_refs[i].tracked
           /\ input.remote_refs[i].target # input.target
           /\ input.remote_refs[j].tracked

\* C6: an untracked remote ref is never synced, a tracked remote ref is
\* synced exactly when its target is the local target, and a TrackingRef is
\* attached exactly to the tracked remote refs.
C6_RemoteSynced ==
    /\ (made # << >> /\ input.fn = "remote") =>
           /\ ~input.remote_ref.tracked => ~made[1].synced
           /\ input.remote_ref.tracked =>
                  (made[1].synced <=> input.remote_ref.target = input.local_target)
           /\ is_tracked(made[1]) <=> input.remote_ref.tracked
           /\ is_tracked(made[1]) =>
                  made[1].tracking_ref[1].target = input.local_target
    /\ (made # << >> /\ input.fn = "remote_only") =>
           ~made[1].synced /\ ~is_tracked(made[1])

\* an untracked remote ref whose target and local target are both absent
C6_Witness ==
    /\ made # << >>
    /\ input.fn = "remote"
    /\ ~input.remote_ref.tracked
    /\ input.remote_ref.target = input.local_target
    /\ is_absent(input.local_target)
    /\ ~made[1].synced

\* commits of the first target's history that the second's history lacks
Ahead(target, other) ==
    Cardinality(Ancestors(Range(added_ids(target)))
                    \ Ancestors(Range(added_ids(other))))

MadeTrackedRemote ==
    made # << >> /\ input.fn = "remote" /\ input.remote_ref.tracked

C8_CountsAreRangeSizes ==
    MadeTrackedRemote =>
        LET k == RefKey(made[1])
            a == Ahead(input.remote_ref.target, input.local_target)
            b == Ahead(input.local_target, input.remote_ref.target)
        IN  /\ counts[k].ahead_count # << >> => counts[k].ahead_count[1] = <<a, <<a>>>>
            /\ counts[k].behind_count # << >> => counts[k].behind_count[1] = <<b, <<b>>>>
            /\ (last.op = "tracking_ahead_count" /\ last.result[1] = "Ok")
                   => last.result[2] = <<a, <<a>>>>
            /\ (last.op = "tracking_behind_count" /\ last.result[1] = "Ok")
                   => last.result[2] = <<b, <<b>>>>
            /\ input.remote_ref.target = input.local_target =>
                   /\ counts[k].ahead_count = << <<0, <<0>>>> >>
                   /\ counts[k].behind_count = << <<0, <<0>>>> >>
            /\ Range(added_ids(input.remote_ref.target))
                   \subseteq Ancestors(Range(added_ids(input.local_target)))
                   => a = 0

\* main at c3, three commits past main@origin at c0: behind 3 computed after
\* ahead 0
C8_Witness ==
    /\ MadeTrackedRemote
    /\ input.remote_ref.target = RefTarget_normal("c0")
    /\ input.local_target = RefTarget_normal("c3")
    /\ last.op = "tracking_behind_count"
    /\ last.result = <<"Ok", <<3, <<3>>>>>>
    /\ counts[RefKey(made[1])].ahead_count = << <<0, <<0>>>> >>

ShortestDone == last.op = "shortest"

\* C9 as stated: prefix and rest together have the length of the full hex
\* text, and the prefix has at least min_len characters when min_len does not
\* exceed that length.
C9_FullLength ==
    ShortestDone =>
        /\ ~last.result.panic
        /\ Len(last.result.prefix) + Len(last.result.rest) = Len(hex(input.self))
        /\ input.total_len <= Len(hex(input.self))
               => Len(last.result.prefix) >= input.total_len

\* C9, amended: prefix and rest together have min(full_hex.len(),
\* max(unique_len, min_len)) characters, which is at least min_len whenever
\* min_len <= full_hex.len().
C9_SplitLength ==
    ShortestDone =>
        /\ ~last.result.panic
        /\ Len(last.result.prefix) + Len(last.result.rest)
               = Min(Len(hex(input.self)), Max(input.prefix_len, input.total_len))
        /\ input.total_len <= Len(hex(input.self))
               => Len(last.result.prefix) + Len(last.result.rest) >= input.total_len

\* a split shorter than the hex text whose prefix is shorter than min_len
C9_Witness ==
    /\ ShortestDone
    /\ input.prefix_len = 1
    /\ input.total_len = 3
    /\ Len(hex(input.self)) = 4
    /\ Len(last.result.prefix) = 1
    /\ Len(last.result.rest) = 2

IsPrefixOf(s, t) == Len(s) <= Len(t) /\ s = SubSeq(t, 1, Len(s))

RECURSIVE StrLess(_, _)
StrLess(a, b) ==
    IF b = << >> THEN FALSE
    ELSE IF a = << >> THEN TRUE
    ELSE IF CharCode(Head(a)) # CharCode(Head(b))
         THEN CharCode(Head(a)) < CharCode(Head(b))
    ELSE StrLess(Tail(a), Tail(b))

\* text is the image of the normal hex of id, digit by digit, under
\* v |-> 'z' - v
IsReversedImage(text, id) ==
    LET normal == encode_hex(id, HexDigits)
    IN  /\ Len(text) = Len(normal)
        /\ \A i \in 1..Len(text) :
               CharCode(text[i]) = CharCode("z") - DigitValue(normal[i], HexDigits)

\* C11: a commit id renders as its own hex; a change id renders as the
\* digit-by-digit image of its normal hex under v |-> 'z' - v (0 -> z,
\* f -> k), decoding that text in the reversed alphabet gives back the id
\* and the text, and two change ids order by their rendered text in the
\* inverse of the order of their normal hex.
C11_HexRoundTrip ==
    /\ (last.op = "format" /\ input.self.kind = "Commit") =>
           /\ last.self = encode_hex(input.self.id, HexDigits)
           /\ last.other = encode_hex(input.other.id, HexDigits)
    /\ (last.op = "format" /\ input.self.kind = "Change") =>
           /\ IsReversedImage(last.self, input.self.id)
           /\ IsReversedImage(last.other, input.other.id)
           /\ CharCode(ReverseHexDigits[1]) = CharCode("z")
           /\ CharCode(ReverseHexDigits[16]) = CharCode("k")
           /\ StrLess(last.self, last.other)
                  <=> StrLess(normal_hex(input.other), normal_hex(input.self))
    /\ last.op = "decode" =>
           /\ last.id = input.self.id
           /\ last.text = hex(input.self)

C11_Witness ==
    /\ last.op = "format"
    /\ input.self = [kind |-> "Change", id |-> <<10, 255>>]
    /\ input.other = [kind |-> "Change", id |-> <<10, 171>>]
    /\ last.self = <<"z", "p", "k", "k">>
    /\ StrLess(last.self, last.other)


\* the call node a builder of a method table is invoked with: the call
\* itself, or the body of the lambda of a well-formed map on a list
BoundCall ==
    IF /\ input.receiver.kind \in ListKinds
       /\ input.function.name = "map"
       /\ input.function.body # << >>
       /\ input.function.args = 1
    THEN [kind |-> ItemKind(input.receiver.kind), function |-> input.function.body[1]]
    ELSE [kind |-> input.receiver.kind, function |-> input.function]

NothingRendered == phase = "aborted" /\ made = << >> /\ output = << >>

\* C12: a method name absent from the Commit table, called on a Commit
\* value, is a build error naming Commit and the method with the span of the
\* call; no builder is invoked, nothing is evaluated or rendered.  The
\* names are those of the calls drawn that builtin_commit_methods does not
\* insert.
C12_UnknownCommitMethod ==
    (/\ last.op = "build_method"
     /\ input.receiver.kind = "Commit"
     /\ input.function.name \in (SampleNames \cup {"map"})
                                    \ {"description", "commit_id", "change_id"}) =>
        /\ ~last.ok
        /\ last.error = <<[kind |-> "NoSuchMethod", type_name |-> "Commit",
                           name |-> input.function.name,
                           span |-> [of |-> "name", name |-> input.function.name,
                                     depth |-> input.function.depth]]>>
        /\ \A i \in 1..Len(last.trace) : last.trace[i] # "build"
        /\ NothingRendered

C12_Witness ==
    /\ last.op = "build_method"
    /\ input.receiver.kind = "Commit"
    /\ input.function.name = "foo"
    /\ input.function.args = 0
    /\ ~last.ok
    /\ phase = "aborted"

UnknownTableMethod ==
    /\ last.op = "build_method"
    /\ input.receiver.kind \in PlainKinds \cup OptKinds
    /\ input.function.name \notin DOMAIN build_fn_table(input.receiver.kind)

\* C13 as stated: the unknown-method error of every table-dispatched kind
\* names the kind's own type_name().
C13_OwnTypeName ==
    UnknownTableMethod =>
        /\ ~last.ok
        /\ last.error[1].kind = "NoSuchMethod"
        /\ last.error[1].type_name = type_name(input.receiver)

\* C13: the unknown-method error of a table-dispatched kind names the
\* kind's own type_name(), except that an optional kind is named by its
\* inner type (Commit, CommitRef, RepoPath, CryptographicSignature).
C13_InnerTypeNameForOptional ==
    UnknownTableMethod =>
        /\ ~last.ok
        /\ last.error[1].kind = "NoSuchMethod"
        /\ last.error[1].name = input.function.name
        /\ IF input.receiver.kind \in OptKinds
           THEN type_name(input.receiver) = "Option<" \o last.error[1].type_name \o ">"
           ELSE last.error[1].type_name = type_name(input.receiver)

C13_Witness ==
    /\ UnknownTableMethod
    /\ input.receiver.kind = "CryptographicSignatureOpt"
    /\ input.function.name = "foo"
    /\ last.error[1].type_name = "CryptographicSignature"


C15_RevsetFailureAbortsBuild ==
    /\ [](last.op = "build_error" =>
              /\ phase = "aborted"
              /\ last.kw \in {"contained_in", "immutable"}
              /\ last.kw = "immutable" =>
                     /\ last.message = "Failed to evaluate revset"
                     /\ last.span = [of |-> "name", name |-> "immutable"]
              /\ last.kw = "contained_in" =>
                     /\ last.span.of = "literal"
                     /\ last.message = IF last.span.text = "("
                                       THEN "In revset expression"
                                       ELSE "Failed to evaluate revset")
    /\ [][/\ \A text \in RevsetTexts, ok \in BOOLEAN :
               (BuildContainedIn(text, ok) /\ (text = "(" \/ ~ok)) =>
                   /\ last'.op = "build_error"
                   /\ last'.span = [of |-> "literal", name |-> "contained_in",
                                    text |-> text]
                   /\ props' = props
          /\ (BuildImmutable(FALSE) /\ cache.is_immutable_fn = << >>) =>
                   /\ last'.op = "build_error"
                   /\ last'.kw = "immutable"
                   /\ props' = props
          /\ phase = "aborted" => (NewTemplate /\ last'.op = "none")]_vars

C15_Witness ==
    /\ last.op = "build_error"
    /\ last.kw = "contained_in"
    /\ last.message = "In revset expression"
    /\ props # {}

IsLocalRef(commit_ref) == commit_ref.remote = << >>
IsRemoteRef(commit_ref) == commit_ref.remote # << >>
IsLocalOrUnsyncedRef(commit_ref) == commit_ref.remote = << >> \/ ~commit_ref.synced

\* C16: for every commit, local_bookmarks is the local refs of the commit's
\* entry in the bookmarks index, remote_bookmarks the remote refs, bookmarks
\* the local refs and the remote refs that are not synced, each in index
\* order: every ref of the entry is in exactly one of the first two and no
\* synced remote ref is in bookmarks.
C16_BookmarksByLocality ==
    (last.op = "eval" /\ last.kw \in {"bookmarks", "local_bookmarks", "remote_bookmarks"}) =>
        LET entry == CommitRefsIndex_get(cache.bookmarks_index[1].index, last.commit)
        IN  /\ last.kw = "local_bookmarks" => last.result = SelectSeq(entry, IsLocalRef)
            /\ last.kw = "remote_bookmarks" => last.result = SelectSeq(entry, IsRemoteRef)
            /\ last.kw = "bookmarks" =>
                   /\ last.result = SelectSeq(entry, IsLocalOrUnsyncedRef)
                   /\ \A i \in 1..Len(last.result) :
                          ~(IsRemoteRef(last.result[i]) /\ last.result[i].synced)
            /\ Len(SelectSeq(entry, IsLocalRef)) + Len(SelectSeq(entry, IsRemoteRef))
                   = Len(entry)

C16_Witness ==
    /\ last.op = "eval"
    /\ last.kw = "bookmarks"
    /\ last.commit = "c4"
    /\ Len(CommitRefsIndex_get(cache.bookmarks_index[1].index, "c4")) = 2
    /\ Len(last.result) = 1
    /\ IsLocalRef(last.result[1])


\* C17: a CommitRef renders as its name, then '@' and the remote name
\* exactly when it is a remote ref, then at most one sigil: '??' when the
\* target has a conflict, otherwise '*' when the ref is local and not
\* synced, otherwise none; neither a remote ref nor a conflicted ref is
\* followed by '*'.
C17_NameRemoteSigil ==
    (made # << >> /\ output # << >>) =>
        LET ref == made[1]
            text == output[1]
            head == IF ref.remote # << >> THEN 3 ELSE 1
            sigils == SubSeq(text, head + 1, Len(text))
        IN  /\ text[1] = ref.name
            /\ IF ref.remote # << >>
               THEN Len(text) >= 3 /\ text[2] = "@" /\ text[3] = ref.remote[1]
               ELSE "@" \notin Range(text)
            /\ Len(sigils) <= 1
            /\ sigils = IF Len(ref.target) > 1 THEN <<"??">>
                        ELSE IF ref.remote = << >> /\ ~ref.synced THEN <<"*">>
                        ELSE << >>
            /\ (ref.remote # << >> \/ Len(ref.target) > 1) => "*" \notin Range(text)

C17_Witness ==
    /\ made # << >>
    /\ made[1].remote = << >>
    /\ ~made[1].synced
    /\ Len(made[1].target) > 1
    /\ output = << <<"main", "??">> >>


InnerTypeName(kind) ==
    CASE kind = "CommitOpt" -> "Commit"
      [] kind = "CommitRefOpt" -> "CommitRef"
      [] kind = "RepoPathOpt" -> "RepoPath"
      [] kind = "CryptographicSignatureOpt" -> "CryptographicSignature"

\* a call of a method of the receiver's table with the arguments it expects
WellFormedCall ==
    /\ input.function.name \in DOMAIN build_fn_table(input.receiver.kind)
    /\ build_fn_table(input.receiver.kind)[input.function.name][1] <= input.function.args
    /\ input.function.args <= build_fn_table(input.receiver.kind)[input.function.name][2]

\* C18: a method call on an optional receiver builds whether or not the
\* value will be present; for a record where it is absent the call alone
\* is replaced by an evaluation error, the rest of the record is written and
\* the records after it are rendered.
C18_AbsentOptionalIsEvaluationError ==
    (/\ last.op = "build_method"
     /\ input.receiver.kind \in OptKinds
     /\ WellFormedCall) =>
        /\ last.ok
        /\ phase = "render"
        /\ Len(output) < MaxRecords => ENABLED RenderRecord
        /\ \A i \in 1..Len(output) :
               output[i] =
                   <<"[",
                     IF input.receiver.values[i] = << >>
                     THEN "<Error: No " \o InnerTypeName(input.receiver.kind)
                              \o " available>"
                     ELSE input.function.name,
                     "]">>

C18_Witness ==
    /\ last.op = "build_method"
    /\ input.receiver.kind = "CryptographicSignatureOpt"
    /\ input.receiver.values[1] = << >>
    /\ input.receiver.values[2] = <<"x">>
    /\ Len(output) >= 2
    /\ output[1] = <<"[", "<Error: No CryptographicSignature available>", "]">>
    /\ output[2] = <<"[", "status", "]">>

\* C19: an optional kind coerces to boolean as 'is present', a list kind as
\* 'is non-empty', the core kind as the core type coerces, and no other
\* kind coerces; an optional that is present and renders as the empty text
\* coerces to true.
C19_BooleanCoercion ==
    last.op = "try_into_boolean" =>
        /\ last.ok = \/ input.receiver.kind \in OptKinds \cup ListKinds
                     \/ input.receiver.kind = "Core" /\ input.receiver.core = "Boolean"
        /\ \A i \in 1..Len(output) :
               LET value == input.receiver.values[i]
               IN  output[i] =
                       <<"[",
                         CASE input.receiver.kind \in OptKinds ->
                                  IF value = << >> THEN "false" ELSE "true"
                           [] input.receiver.kind \in ListKinds ->
                                  IF Len(value) = 0 THEN "false" ELSE "true"
                           [] input.receiver.kind = "Core" -> value[1],
                         "]">>
        /\ (~last.ok) => NothingRendered

C19_Witness ==
    /\ last.op = "try_into_boolean"
    /\ input.receiver.kind = "RepoPathOpt"
    /\ input.receiver.values[1] = <<"">>
    /\ input.receiver.values[2] = << >>
    /\ Len(output) >= 2
    /\ output[1] = <<"[", "true", "]">>
    /\ output[2] = <<"[", "false", "]">>

\* C20: a method that takes no arguments, called with one or more, is an
\* 'Expected 0 arguments' build error with the span of the call's
\* arguments, also when the call is the body of a lambda; nothing is
\* evaluated or rendered.
C20_ExpectedNoArguments ==
    (/\ last.op = "build_method"
     /\ BoundCall.kind \in PlainKinds \cup OptKinds
     /\ BoundCall.function.name \in DOMAIN build_fn_table(BoundCall.kind)
     /\ build_fn_table(BoundCall.kind)[BoundCall.function.name] = <<0, 0>>
     /\ BoundCall.function.args >= 1) =>
        /\ ~last.ok
        /\ last.error = <<[kind |-> "InvalidArguments",
                           name |-> BoundCall.function.name,
                           message |-> "Expected 0 arguments",
                           span |-> [of |-> "args",
                                     name |-> BoundCall.function.name,
                                     depth |-> BoundCall.function.depth]]>>
        /\ NothingRendered

C20_Witness ==
    /\ last.op = "build_method"
    /\ input.receiver.kind = "CommitList"
    /\ input.function.name = "map"
    /\ BoundCall.function.name = "commit_id"
    /\ BoundCall.function.args = 1
    /\ BoundCall.function.depth = 1
    /\ ~last.ok
    /\ last.error[1].message = "Expected 0 arguments"


\* C21: a short-prefix index that fails to load never fails the binding of
\* shortest: the diagnostics hold exactly one warning, with the span of the
\* method name, per property bound without its index, that property holds
\* the empty index, and each of its evaluations is a prefix/rest split of
\* the hex text.
C21_LoadFailureIsWarning ==
    /\ phase # "aborted"
    /\ Len(diagnostics) = Cardinality({p \in props : ~p.loaded})
    /\ \A i \in 1..Len(diagnostics) :
           diagnostics[i] = [message |-> "Failed to load short-prefixes index",
                             span |-> [of |-> "name", name |-> "shortest"]]
    /\ last.op = "eval_shortest" =>
           /\ ~last.result.panic
           /\ last.result.prefix \o last.result.rest =
                  truncate(hex(input.self),
                           Max(input.prefix_len,
                               IF last.arg = "" THEN 0 ELSE input.total_len))
           /\ Len(last.result.prefix) = input.prefix_len

C21_Witness ==
    /\ last.op = "eval_shortest"
    /\ ~last.loaded
    /\ Len(diagnostics) = 1
    /\ last.result.rest # << >>


\* the elements a list-valued method reads, in order: what cannot be read
\* and what each readable element gives
ListElements ==
    LET method == last.method
        ids == CASE method = "parents" -> input.parent_ids
                 [] method = "removed_targets" -> removed_ids(input.target)
                 [] method = "added_targets" -> added_ids(input.target)
                 [] method = "files" ->
                        SelectSeq(DiffPaths,
                                  LAMBDA path :
                                      /\ path \in input.matcher
                                      /\ input.from_tree[path] # input.to_tree[path])
    IN  ids

\* C22: parents, added_targets, removed_targets and diff.files give either
\* the complete list, one element per id or changed path and in their
\* order, or an error naming an element that cannot be read; with every
\* element readable the result is the list, and a list is never shorter
\* than the elements.
C22_AllOrNothing ==
    last.op = "eval_list" =>
        LET elements == ListElements
            unread == {i \in 1..Len(elements) : elements[i] \in input.unreadable}
        IN  IF unread = {}
            THEN /\ last.result.ok
                 /\ Len(last.result.value) = Len(elements)
                 /\ \A i \in 1..Len(elements) :
                        IF last.method = "files"
                        THEN last.result.value[i].path.target = elements[i]
                        ELSE last.result.value[i] = elements[i]
            ELSE /\ ~last.result.ok
                 /\ last.result.error[1] = "BackendError"
                 /\ \E i \in unread : last.result.error[2] = elements[i]
                 /\ "value" \notin DOMAIN last.result

C22_Witness ==
    /\ last.op = "eval_list"
    /\ ~last.result.ok
    /\ Len(ListElements) = 2
    /\ ListElements[1] \notin input.unreadable

C24_LocalXorRemote ==
    made # << >> =>
        /\ is_local(made[1]) = (remote_name(made[1]) = << >>)
        /\ is_local(made[1]) # is_remote(made[1])

C24_Witness ==
    /\ made # << >>
    /\ input.fn = "remote_only"
    /\ is_remote(made[1])
    /\ remote_name(made[1]) = <<"origin">>

\* C30: every ref an index holds has consistent flags: tracked only if
\* remote, tracking present only if tracked, a synced remote ref is
\* tracked, and the refs of the tags and git-refs indices are local, synced
\* and untracked.
C30_FlagsConsistent ==
    \A ns \in Namespaces :
        IndexCell(cache, ns) # << >> =>
            \A r \in IndexRefs(IndexCell(cache, ns)[1].index) :
                /\ is_tracked(r) => is_remote(r)
                /\ is_tracking_present(r) => is_tracked(r)
                /\ (is_remote(r) /\ r.synced) => is_tracked(r)
                /\ ns \in {"tags", "git_refs"} =>
                       (is_local(r) /\ r.synced /\ ~is_tracked(r))

C30_Witness ==
    /\ \A ns \in Namespaces : IndexCell(cache, ns) # << >>
    /\ IndexRefs(IndexCell(cache, "tags")[1].index) # {}
    /\ \E r \in IndexRefs(IndexCell(cache, "bookmarks")[1].index) :
           is_tracked(r) /\ r.synced /\ is_tracking_present(r)
    /\ \E r \in IndexRefs(IndexCell(cache, "bookmarks")[1].index) :
           is_remote(r) /\ ~is_tracked(r)


\* the positions of the writes of one kind in the output of a Progress
WritesOfKind(kind) == {i \in 1..Len(output) : output[i].kind = kind}

\* C25: with overall # 1.0 a call of update writes only at or after
\* next_print; the first progress line is written no earlier than
\* INITIAL_DELAY after the construction, and each later one no earlier than
\* 1/UPDATE_HZ seconds after the line before it.
C25_Throttle ==
    progress # << >> =>
        LET lines == WritesOfKind("line")
        IN  /\ (last.op = "update" /\ last.overall # 16 /\ last.wrote)
                   => now >= last.next_print
            /\ \A i \in lines : output[i].at >= input.start + INITIAL_DELAY
            /\ \A i, j \in lines :
                   i < j => output[j].at >= output[i].at + 1000000 \div UPDATE_HZ

\* a call that comes after a late first line and writes nothing, although
\* a whole period has passed since the first threshold
C25_Witness ==
    /\ progress # << >>
    /\ last.op = "update" /\ last.overall # 16 /\ ~last.wrote
    /\ Cardinality(WritesOfKind("line")) = 1
    /\ now >= input.start + INITIAL_DELAY + 1000000 \div UPDATE_HZ

\* C26: draw_progress appends exactly width characters: floor(ticks/8) full
\* blocks, where ticks is width * clamp(progress, 0, 1) * 8 rounded, then
\* the block of the remaining eighths if the full blocks are fewer than
\* width, then blanks; width blanks for progress 0, width full blocks for
\* progress 1.
C26_BarWidth ==
    last.op = "draw_progress" =>
        LET before == Len(input.buffer)
            clamped == IF input.progress < 0 THEN 0
                       ELSE IF input.progress > 16 THEN 16 ELSE input.progress
            ticks == (2 * input.width * clamped * 8 + 16) \div 32
            whole == ticks \div 8
        IN  /\ Len(last.buffer) = before + input.width
            /\ SubSeq(last.buffer, 1, before) = input.buffer
            /\ \A i \in 1..input.width :
                   last.buffer[before + i] =
                       IF i <= whole THEN "8/8"
                       ELSE IF i = whole + 1 THEN CHARS[(ticks % 8) + 1]
                       ELSE " "
            /\ input.progress = 0 =>
                   \A i \in 1..input.width : last.buffer[before + i] = " "
            /\ input.progress = 16 =>
                   \A i \in 1..input.width : last.buffer[before + i] = "8/8"

C26_Witness ==
    /\ last.op = "draw_progress"
    /\ input.width >= 3
    /\ last.buffer[Len(input.buffer) + 1] = "8/8"
    /\ last.buffer[Len(input.buffer) + 2] \notin {" ", "8/8"}
    /\ last.buffer[Len(last.buffer)] = " "

\* C27: the hide-cursor escape is written at most once, right before the
\* first progress line and at its time, and the guard that restores the
\* cursor is the one installed at that time; no later line comes with
\* another escape.
C27_HideOnce ==
    progress # << >> =>
        LET lines == WritesOfKind("line")
            hides == WritesOfKind("hide")
            first == CHOOSE i \in lines : \A j \in lines : i <= j
        IN  IF lines = {}
            THEN hides = {} /\ progress[1].guard = << >>
            ELSE /\ hides = {first - 1}
                 /\ output[first - 1].at = output[first].at
                 /\ progress[1].guard # << >>
                 /\ progress[1].guard[1].installed = output[first].at

C27_Witness ==
    /\ progress # << >>
    /\ Cardinality(WritesOfKind("line")) = 2
    /\ Cardinality(WritesOfKind("hide")) = 1
    /\ last.op = "update" /\ last.wrote /\ last.overall # 16

\* C28: a write gives one chunk per CR or LF of the packet; each chunk
\* starts with the prefix and holds it once; the chunk of a non-empty line
\* has the suffix before its line break, and a lone line break met with an
\* empty scratch buffer gives the prefix and the line break alone; the bytes
\* after the last line break are kept at the end of the scratch buffer.
C28_ChunkPerLine ==
    last.op = "write" =>
        LET packet == last.packet
            breaks == {i \in 1..Len(packet) : packet[i] \in {"CR", "LF"}}
            Break(k) == CHOOSE i \in breaks :
                            Cardinality({j \in breaks : j <= i}) = k
            Start(k) == IF k = 1 THEN 1 ELSE Break(k - 1) + 1
            Bytes(k) == SubSeq(packet, Start(k), Break(k) - 1)
            rest == SubSeq(packet,
                           IF breaks = {} THEN 1 ELSE Break(Cardinality(breaks)) + 1,
                           Len(packet))
            scratch == writer[1].scratch
        IN  /\ Len(last.written) = Cardinality(breaks)
            /\ \A k \in 1..Len(last.written) :
                   LET chunk == last.written[k]
                       carried == IF k = 1 THEN last.scratch ELSE << >>
                   IN  /\ chunk[1] = "remote: "
                       /\ Cardinality({i \in 1..Len(chunk) : chunk[i] = "remote: "}) = 1
                       /\ chunk[Len(chunk)] = packet[Break(k)]
                       /\ IF carried = << >> /\ Bytes(k) = << >>
                          THEN chunk = <<"remote: ", packet[Break(k)]>>
                          ELSE chunk = (IF carried = << >> THEN <<"remote: ">>
                                        ELSE carried)
                                       \o Bytes(k) \o writer[1].suffix
                                       \o <<packet[Break(k)]>>
            /\ scratch =
                   IF rest = << >>
                   THEN (IF breaks = {} THEN last.scratch ELSE << >>)
                   ELSE (IF breaks = {} /\ last.scratch # << >> THEN last.scratch
                         ELSE <<"remote: ">>) \o rest

\* the sideband output of one write of the whole stream and a flush
WrittenAtOnce ==
    LET w == GitSidebandProgressMessageWriter_write(
                 GitSidebandProgressMessageWriter_new(input.is_terminal),
                 input.stream, 1, << >>)
    IN  w.written \o GitSidebandProgressMessageWriter_flush(w.self).written

\* C29: once the stream has been written, in packets of any lengths, and
\* flushed, the bytes written are those of one write of the whole stream
\* and a flush.
C29_PacketBoundaries ==
    last.op = "flush" => ConcatAll(output) = ConcatAll(WrittenAtOnce)


====
